---- MODULE Spec2Model ----
(***************************************************************************)
(* Model of the document ingestion, retrieval and pause handlers of the    *)
(* corporate-compass RAG service:                                          *)
(*   app/api/upload/route.ts                 POST  (ingestion, versioning) *)
(*   app/api/chat/route.ts                   POST  (chat pipeline)         *)
(*   app/api/admin/documents/status/route.ts POST  (pause / activate)      *)
(*   admin documents route (part_005)        DELETE (admin deletion)       *)
(* The vector store is the set of chunk records `store`; the paused        *)
(* registry is the JSON list `pausedDocs`; `db` holds the chat tables.     *)
(* Every handler is cut at its awaits on the store, on the registry file,  *)
(* on the database and on the providers.                                   *)
(***************************************************************************)
EXTENDS Integers, Sequences, FiniteSets, TLC

VARIABLES store, pausedDocs, nextId, up, chat, st, del, hist,
          post, db, embeddingCache, gc, ls, now, pd

vars == <<store, pausedDocs, nextId, up, chat, st, del, hist,
          post, db, embeddingCache, gc, ls, now, pd>>

(***************************************************************************)
(* Bounds of the model.                                                    *)
(***************************************************************************)
\* largest number of chunks the splitter yields for one document
MaxChunks == 2
\* number of upload requests, and of pause/activate requests, one behaviour starts
MaxRequests == 2
\* number of admin deletions one behaviour starts
MaxDeletes == 1

\* largest store drawn as an initial store in the filter specifications
MaxStore == 3

(***************************************************************************)
(* Program constants.                                                      *)
(***************************************************************************)
\* chat: topK of the retrieval query
ChatTopK == 5
\* upload: topK of the latest-version probe
LatestTopK == 1
\* upload / admin delete: topK of the fetch-all-ids queries
\* (mutant: the probe's topK copied to the fetch)
AllTopK_One == LatestTopK
AllTopK == 10000
\* upload: records per upsert call
batchSize == 100

(***************************************************************************)
(* Values.                                                                 *)
(***************************************************************************)
Sources == {"a.pdf", "b.txt"}

\* session.user: an id and an optional role ("" stands for null/undefined)
NoRole == ""
Admin == [id |-> "u2", role |-> "admin"]
Sales == [id |-> "u1", role |-> "sales"]
Plain == [id |-> "u3", role |-> NoRole]
Principals == {Sales, Admin, Plain}

\* metadata keys a chunk may lack
NoUser == ""
NoVersion == -1
\* parseInt of a string with no leading digit
NaN == -2

Min(a, b) == IF a < b THEN a ELSE b

Range(q) == {q[i] : i \in DOMAIN q}

(***************************************************************************)
(* Chunk records of the vector store.  A metadata key the upload never set *)
(* is NoUser / NoVersion / {} ; an unset boolean key is FALSE (the filters *)
(* only ever test booleans against true).                                  *)
(***************************************************************************)
Chunk(id, source, user_id, is_public, roles, version, is_latest) ==
  [id |-> id, source |-> source, user_id |-> user_id, is_public |-> is_public,
   roles |-> roles, version |-> version, is_latest |-> is_latest]

Has(c, field) ==
  CASE field = "user_id" -> c.user_id # NoUser
    [] field = "roles" -> c.roles # {}
    [] field = "version" -> c.version # NoVersion
    [] OTHER -> TRUE

(***************************************************************************)
(* Metadata filters, as the handlers build them, and their evaluation by   *)
(* the store.  An object with several keys is the conjunction of its keys. *)
(***************************************************************************)
And(args) == [op |-> "$and", args |-> args]
Or(args) == [op |-> "$or", args |-> args]
Eq(field, value) == [op |-> "$eq", field |-> field, value |-> value]
In(field, values) == [op |-> "$in", field |-> field, values |-> values]
Nin(field, values) == [op |-> "$nin", field |-> field, values |-> values]
Exists(field) == [op |-> "$exists", field |-> field]

RECURSIVE Eval(_, _)
Eval(f, c) ==
  CASE f.op = "$and" -> \A i \in DOMAIN f.args : Eval(f.args[i], c)
    [] f.op = "$or" -> \E i \in DOMAIN f.args : Eval(f.args[i], c)
    [] f.op = "$eq" -> Has(c, f.field) /\ c[f.field] = f.value
    [] f.op = "$in" -> Has(c, f.field) /\
                       (IF f.field = "roles"
                        THEN c.roles \cap Range(f.values) # {}
                        ELSE c[f.field] \in Range(f.values))
    [] f.op = "$nin" -> ~(Has(c, f.field) /\ c[f.field] \in Range(f.values))
    [] f.op = "$exists" -> Has(c, f.field)

Matching(f, S) == {c \in S : Eval(f, c)}

\* index.query: the topK best matches; which ones when more match is the
\* store's ranking, any choice of topK of them here
Query(f, topK, S) ==
  LET M == Matching(f, S)
  IN  IF Cardinality(M) <= topK THEN {M}
      ELSE IF topK = 1 THEN {{c} : c \in M}
      ELSE {R \in SUBSET M : Cardinality(R) = topK}

(***************************************************************************)
(* parseInt(version, 10) on a string given as its characters: the leading  *)
(* decimal digits, NaN when there is none.                                 *)
(***************************************************************************)
Digits == {"0", "1", "2", "3", "4", "5", "6", "7", "8", "9"}
DigitVal(ch) ==
  CASE ch = "0" -> 0 [] ch = "1" -> 1 [] ch = "2" -> 2 [] ch = "3" -> 3
    [] ch = "4" -> 4 [] ch = "5" -> 5 [] ch = "6" -> 6 [] ch = "7" -> 7
    [] ch = "8" -> 8 [] ch = "9" -> 9

RECURSIVE ParseDigits(_, _)
ParseDigits(s, acc) ==
  IF s = <<>> \/ Head(s) \notin Digits THEN acc
  ELSE ParseDigits(Tail(s), 10 * acc + DigitVal(Head(s)))

ParseInt(s) ==
  IF s = <<>> \/ Head(s) \notin Digits THEN NaN ELSE ParseDigits(s, 0)

(***************************************************************************)
(* chat/route.ts: the retrieval filter.                                    *)
(***************************************************************************)
BaseFilter(paused) == Nin("source", paused)

\* if (source && version): a field that is absent or the empty string is falsy
\* (mutant: one of the two fields is enough)
ExplicitMode_Either(source, version) == source # "" \/ version # <<>>
ExplicitMode(source, version) == source # "" /\ version # <<>>

\* mutants of OrClauses: the private clause without the owner test; the shared
\* clauses without the is_latest test
OrClauses_AnyPrivate(user) ==
  << Exists("user_id"),
     And(<<Eq("is_public", TRUE), Eq("is_latest", TRUE)>>) >>
  \o (IF user.role # NoRole
      THEN << And(<<In("roles", <<user.role>>), Eq("is_latest", TRUE)>>) >>
      ELSE <<>>)

OrClauses_NoLatest(user) ==
  << Eq("user_id", user.id), Eq("is_public", TRUE) >>
  \o (IF user.role # NoRole THEN << In("roles", <<user.role>>) >> ELSE <<>>)

OrClauses(user) ==
  << Eq("user_id", user.id),
     And(<<Eq("is_public", TRUE), Eq("is_latest", TRUE)>>) >>
  \o (IF user.role # NoRole
      THEN << And(<<In("roles", <<user.role>>), Eq("is_latest", TRUE)>>) >>
      ELSE <<>>)

\* mutant of ChatFilter: the explicit-version branch without is_public
ChatFilter_NoPublic(user, source, version, paused) ==
  IF ExplicitMode(source, version)
  THEN And(<< BaseFilter(paused), Eq("source", source),
              Eq("version", ParseInt(version)) >>)
  ELSE And(<< Or(OrClauses(user)), BaseFilter(paused) >>)

ChatFilter(user, source, version, paused) ==
  IF ExplicitMode(source, version)
  THEN And(<< BaseFilter(paused), Eq("source", source),
              Eq("version", ParseInt(version)), Eq("is_public", TRUE) >>)
  ELSE And(<< Or(OrClauses(user)), BaseFilter(paused) >>)

(***************************************************************************)
(* upload/route.ts: access and version metadata of a new chunk.            *)
(***************************************************************************)
\* (mutant of IsSharedUpload: the role of the uploader is not looked at)
IsSharedUpload_AnyRole(user, accessLevel) == accessLevel \in {"public", "roles"}

\* rolesStr.split(',').map(trim).filter(nonempty), rolesStr given as its
\* comma-separated pieces already trimmed
ParseRoles(rolesStr) == {rolesStr[i] : i \in {j \in DOMAIN rolesStr : rolesStr[j] # ""}}

IsSharedUpload(user, accessLevel) ==
  user.role = "admin" /\ accessLevel \in {"public", "roles"}

NewChunk(id, user, source, accessLevel, rolesStr, version) ==
  IF IsSharedUpload(user, accessLevel)
  THEN IF accessLevel = "public"
       THEN Chunk(id, source, NoUser, TRUE, {}, version, TRUE)
       ELSE Chunk(id, source, NoUser, FALSE, ParseRoles(rolesStr), version, TRUE)
  ELSE Chunk(id, source, user.id, FALSE, {}, NoVersion, FALSE)

\* index.update({id, setMetadata: {is_latest: false}}) on one record
\* (mutant: the update leaves the flag)
SetNotLatest_Noop(c) == c
SetNotLatest(c) == [c EXCEPT !.is_latest = FALSE]

(***************************************************************************)
(* Requests.  Each request variable holds the handler's locals and its     *)
(* position; `hist` holds history the claims speak about and the handlers  *)
(* never read.                                                             *)
(***************************************************************************)
Uploaders == {1, 2}
Togglers == {1, 2}

IdleChat ==
  [pc |-> "idle", user |-> Plain, source |-> "", version |-> <<>>,
   pausedDocs |-> <<>>, result |-> {}, mustExclude |-> {}, during |-> ""]

IdleUp ==
  [pc |-> "idle", user |-> Plain, source |-> "", accessLevel |-> "",
   rolesStr |-> <<>>, nChunks |-> 0, version |-> 0, ids |-> {},
   vectors |-> <<>>, response |-> 0,
   hadLatest |-> FALSE, cleared |-> {}, written |-> {}, updateFailed |-> FALSE,
   overlapped |-> FALSE,
   probed |-> FALSE, embedFailed |-> FALSE, attempted |-> 0, skipped |-> {},
   extracted |-> FALSE]

\* a chat request through the whole pipeline: its fields, its locals, the
\* response it returned; `req` numbers the requests and `events` lists, in
\* order, the calls the request made and the rows it persisted
NoConversation == 0
NoResponse == [status |-> 0, body |-> <<>>, sources |-> {}, conversationId |-> NoConversation]

IdlePost ==
  [pc |-> "idle", req |-> 0, user |-> Plain, query |-> <<>>, persona |-> "",
   conversationId |-> NoConversation, source |-> "", version |-> <<>>,
   relevantDocs |-> {}, tokensLeft |-> 0, accumulatedResponse |-> <<>>,
   assistantMessageId |-> 0, response |-> NoResponse,
   bypass |-> FALSE, cancelled |-> FALSE, failed |-> "", chatHistory |-> <<>>,
   events |-> <<>>]

\* upload/route.ts: the embedding cache of the route (text -> vector), the
\* calls of getCachedEmbedding in progress, the number of provider calls made
\* so far and the results the calls returned
GetCallers == {1, 2}
IdleCall == [pc |-> "idle", text |-> "", hit |-> FALSE, computed |-> 0, run |-> 0,
             result |-> [text |-> "", run |-> 0]]
IdleGc == [cache |-> <<>>, call |-> [k \in GetCallers |-> IdleCall],
           started |-> 0, provided |-> 0, returned |-> {}]

\* documents/private/route.ts POST: the deletion request in progress
IdlePrivateDelete == [pc |-> "idle", req |-> 0, user |-> Plain, source |-> "",
                      ids |-> {}, response |-> 0]

\* part_005 GET: the listing request in progress
IdleList == [pc |-> "idle", req |-> 0, user |-> Plain, pausedDocs |-> <<>>,
             status |-> 0, body |-> {}]

\* the tables conversations, messages and sources
EmptyDb == [conversations |-> {}, messages |-> <<>>, sources |-> {}]

IdleSt == [pc |-> "idle", user |-> Plain, source |-> "", status |-> "",
           pausedDocs |-> <<>>, response |-> 0]

IdleDel == [pc |-> "idle", source |-> "", version |-> 0, ids |-> {}]

InitHist ==
  [paused |-> {}, uploads |-> 0, deletes |-> 0, toggles |-> 0,
   count |-> [s \in Sources |-> 0], pure |-> [s \in Sources |-> TRUE]]

\* an ingestion or a deletion is between its first and its last store call
UploadBusy(u) == up[u].pc \notin {"idle", "done"}
Steady == (\A u \in Uploaders : ~UploadBusy(u)) /\ del.pc = "idle"

\* the step a shared ingestion that found a latest version is at ("": none is)
Rolling ==
  IF \E u \in Uploaders : UploadBusy(u) /\ up[u].hadLatest
  THEN up[CHOOSE u \in Uploaders : UploadBusy(u) /\ up[u].hadLatest].pc
  ELSE ""

(***************************************************************************)
(* chat/route.ts POST, step 3: document retrieval.                         *)
(***************************************************************************)
VersionStrings == { <<>>, <<"1">>, <<"2", "x">>, <<"x">> }

\* the request is accepted with its principal and its fields
ChatStart(user, source, version) ==
  /\ chat.pc = "idle"
  /\ chat' = [IdleChat EXCEPT !.pc = "Retrieve", !.user = user,
                              !.source = source, !.version = version]
  /\ UNCHANGED <<pd, ls, now, gc, post, db, embeddingCache, store, pausedDocs, nextId, up, st, del, hist>>

\* const pausedDocs = await getPausedDocs()
ChatGetPausedDocs ==
  /\ chat.pc = "Retrieve"
  /\ chat' = [chat EXCEPT !.pc = "Query", !.pausedDocs = pausedDocs,
                          !.mustExclude = hist.paused]
  /\ UNCHANGED <<pd, ls, now, gc, post, db, embeddingCache, store, pausedDocs, nextId, up, st, del, hist>>

\* the filter is built and the query awaited
ChatQuery ==
  /\ chat.pc = "Query"
  /\ \E R \in Query(ChatFilter(chat.user, chat.source, chat.version,
                               chat.pausedDocs), ChatTopK, store) :
       chat' = [chat EXCEPT !.pc = "Retrieved", !.result = R,
                            !.during = Rolling]
  /\ UNCHANGED <<pd, ls, now, gc, post, db, embeddingCache, store, pausedDocs, nextId, up, st, del, hist>>

\* the response is sent
ChatDone ==
  /\ chat.pc = "Retrieved"
  /\ chat' = IdleChat
  /\ UNCHANGED <<pd, ls, now, gc, post, db, embeddingCache, store, pausedDocs, nextId, up, st, del, hist>>

(***************************************************************************)
(* SpecFilter: the retrieval filter on every small store the upload        *)
(* handler's tagging can produce, every small registry, every principal    *)
(* and every request mode.                                                 *)
(***************************************************************************)
Shapes(s) ==
  << NewChunk(0, Sales, s, "private", <<>>, 1),
     NewChunk(0, Admin, s, "private", <<>>, 1),
     SetNotLatest(NewChunk(0, Admin, s, "public", <<>>, 1)),
     NewChunk(0, Admin, s, "public", <<>>, 2),
     NewChunk(0, Admin, s, "roles", <<"sales">>, 2),
     NewChunk(0, Admin, s, "roles", <<"hr", "">>, 2),
     SetNotLatest(NewChunk(0, Admin, s, "roles", <<"sales", "hr">>, 1)) >>

Universe ==
  UNION { { [Shapes(s)[i] EXCEPT !.id = IF s = "a.pdf" THEN i ELSE Len(Shapes(s)) + i]
            : i \in DOMAIN Shapes(s) } : s \in Sources }

PausedLists == { <<>>, <<"a.pdf">>, <<"b.txt">>, <<"a.pdf", "b.txt">> }

InitFilter ==
  /\ store \in {S \in SUBSET Universe : Cardinality(S) <= MaxStore}
  /\ pausedDocs \in PausedLists
  /\ nextId = 1
  /\ up = [u \in Uploaders |-> IdleUp]
  /\ chat = IdleChat
  /\ st = [t \in Togglers |-> IdleSt]
  /\ del = IdleDel
  /\ hist = InitHist
  /\ post = IdlePost
  /\ db = EmptyDb
  /\ embeddingCache = {}
  /\ gc = IdleGc
  /\ ls = IdleList
  /\ now = 0
  /\ pd = IdlePrivateDelete

NextFilter ==
  \/ \E user \in Principals, source \in Sources \cup {""}, version \in VersionStrings :
       ChatStart(user, source, version)
  \/ ChatGetPausedDocs
  \/ ChatQuery
  \/ ChatDone

SpecFilter == InitFilter /\ [][NextFilter]_vars

(***************************************************************************)
(* upload/route.ts POST: validation, extraction, versioning, embedding and *)
(* upsert.  A file is what the handler looks at: whether the form holds    *)
(* one, its MIME type, its size, and the number of chunks its extracted    *)
(* text splits into (0: the extracted text is empty).                      *)
(***************************************************************************)
allowedMimeTypes ==
  {"application/pdf", "text/plain",
   "application/vnd.openxmlformats-officedocument.wordprocessingml.document"}
maxFileSize == 15 * 1024 * 1024

File(present, type, size, chunks) ==
  [present |-> present, type |-> type, size |-> size, chunks |-> chunks]

ValidFiles == {File(TRUE, "application/pdf", 1024, n) : n \in {1, MaxChunks}}
InvalidFiles ==
  { File(FALSE, "", 0, 0),
    File(TRUE, "image/png", 1024, 1),
    File(TRUE, "text/plain", maxFileSize + 1, 1),
    File(TRUE, "text/plain", 1024, 0) }

\* the response of the checks made before any store call; 0: none, go on
\* (mutant: no check of the extracted text)
Validate_NoTextCheck(file) ==
  IF ~file.present THEN 400
  ELSE IF file.type \notin allowedMimeTypes THEN 400
  ELSE IF file.size > maxFileSize THEN 400
  ELSE 0
Validate(file) ==
  IF ~file.present THEN 400
  ELSE IF file.type \notin allowedMimeTypes THEN 400
  ELSE IF file.size > maxFileSize THEN 400
  ELSE IF file.chunks = 0 THEN 500
  ELSE 0

AccessLevels == {"public", "private", "roles"}
RoleStrings == { <<>>, <<"sales">>, <<"">> }

\* filter of the latest-version probe and of the fetch of the old chunks
LatestFilter(source) ==
  And(<< Eq("source", source), Eq("is_latest", TRUE),
         Or(<< Eq("is_public", TRUE), Exists("roles") >>) >>)

\* (metadata?.version as number) || 0
\* (mutant: the version of the match is not read)
VersionOf_Zero(c) == 0
VersionOf(c) == IF c.version = NoVersion THEN 0 ELSE c.version

\* lines 157-169 run without an await after the versioning: the roles of a
\* roles upload are parsed only here, and an empty list ends the request
Tagged(r) ==
  IF r.accessLevel = "roles" /\ ParseRoles(r.rolesStr) = {}
  THEN [r EXCEPT !.pc = "done", !.response = 400]
  ELSE [r EXCEPT !.pc = "Embedding"]

Others(u) == Uploaders \ {u}

UploadStart(u, user, file, source, accessLevel, rolesStr) ==
  /\ up[u].pc = "idle"
  /\ hist.uploads < MaxRequests
  /\ LET r == [IdleUp EXCEPT !.user = user, !.source = source,
                             !.accessLevel = accessLevel, !.rolesStr = rolesStr,
                             !.nChunks = file.chunks,
                             !.extracted = Validate(file) # 400,
                             !.overlapped = \E v \in Others(u) : UploadBusy(v)]
         shared == IsSharedUpload(user, accessLevel)
     IN  /\ up' = [up EXCEPT ![u] =
                     IF Validate(file) # 0
                     THEN [r EXCEPT !.pc = "done", !.response = Validate(file)]
                     ELSE IF shared THEN [r EXCEPT !.pc = "Querying"]
                     ELSE [r EXCEPT !.pc = "Embedding"]]
         /\ hist' = [hist EXCEPT !.uploads = @ + 1,
                                 !.pure[source] = @ /\ shared /\ Validate(file) = 0]
  /\ UNCHANGED <<pd, ls, now, gc, post, db, embeddingCache, store, pausedDocs, nextId, chat, st, del>>

\* const latestVersionQuery = await pineconeIndex.query({topK: 1, ...})
UploadLatestQuery(u) ==
  /\ up[u].pc = "Querying"
  /\ \E M \in Query(LatestFilter(up[u].source), LatestTopK, store) :
       up' = [up EXCEPT ![u] =
                IF M # {}
                THEN [@ EXCEPT !.pc = "RollQuery", !.hadLatest = TRUE,
                               !.probed = TRUE,
                               !.version = VersionOf(CHOOSE c \in M : TRUE) + 1]
                ELSE Tagged([@ EXCEPT !.version = 1, !.probed = TRUE])]
  /\ UNCHANGED <<pd, ls, now, gc, post, db, embeddingCache, store, pausedDocs, nextId, chat, st, del, hist>>

\* const allOldChunksQuery = await pineconeIndex.query({topK: 10000, ...})
UploadAllOldQuery(u) ==
  /\ up[u].pc = "RollQuery"
  /\ \E M \in Query(LatestFilter(up[u].source), AllTopK, store) :
       up' = [up EXCEPT ![u] =
                IF M # {}
                THEN [@ EXCEPT !.pc = "RollingOver", !.ids = {c.id : c \in M}]
                ELSE Tagged(@)]
  /\ UNCHANGED <<pd, ls, now, gc, post, db, embeddingCache, store, pausedDocs, nextId, chat, st, del, hist>>

\* await pineconeIndex.update({id, setMetadata: {is_latest: false}}) for the
\* next id of the loop; a rejected update throws out of the handler's try
UploadUpdate(u, id, ok) ==
  /\ up[u].pc = "RollingOver"
  /\ id \in up[u].ids
  /\ IF ok
     THEN /\ store' = {IF c.id = id THEN SetNotLatest(c) ELSE c : c \in store}
          /\ up' = [up EXCEPT ![u] =
                      LET r == [@ EXCEPT !.ids = @ \ {id},
                                         !.cleared = @ \cup {c.id : c \in {d \in store : d.id = id /\ d.is_latest}}]
                      IN  IF r.ids = {} THEN Tagged(r) ELSE r]
     ELSE /\ store' = store
          /\ up' = [up EXCEPT ![u] = [@ EXCEPT !.pc = "done", !.response = 500,
                                               !.updateFailed = TRUE]]
  /\ UNCHANGED <<pd, ls, now, gc, post, db, embeddingCache, pausedDocs, nextId, chat, st, del, hist>>

\* const vectors = await Promise.all(docs.map(...)): every chunk embedded and
\* given a fresh id; a rejected embedding ends the request
UploadEmbed(u, ok) ==
  /\ up[u].pc = "Embedding"
  /\ IF ok
     THEN /\ up' = [up EXCEPT ![u] =
                      [@ EXCEPT !.pc = "Writing",
                                !.vectors = [i \in 1..up[u].nChunks |->
                                               NewChunk(nextId + i - 1, up[u].user,
                                                        up[u].source, up[u].accessLevel,
                                                        up[u].rolesStr, up[u].version)]]]
          /\ nextId' = nextId + up[u].nChunks
     ELSE /\ up' = [up EXCEPT ![u] = [@ EXCEPT !.pc = "done", !.response = 500,
                                               !.embedFailed = TRUE]]
          /\ nextId' = nextId
  /\ UNCHANGED <<pd, ls, now, gc, post, db, embeddingCache, store, pausedDocs, chat, st, del, hist>>

\* the loop over the batches after one upsert call: the catch of a rejected
\* batch only logs, so the loop goes on while vectors are left
\* (mutant: the catch rethrows)
NextBatchPc_Abort(rest, ok) == IF rest = <<>> \/ ~ok THEN "done" ELSE "Writing"
NextBatchPc(rest, ok) == IF rest = <<>> THEN "done" ELSE "Writing"

\* await pineconeIndex.upsert(batch) for the next batch; a rejected batch is
\* logged and skipped
UploadUpsert(u, ok) ==
  /\ up[u].pc = "Writing"
  /\ LET n == Min(batchSize, Len(up[u].vectors))
         batch == SubSeq(up[u].vectors, 1, n)
         rest == SubSeq(up[u].vectors, n + 1, Len(up[u].vectors))
     IN  /\ store' = IF ok THEN store \cup Range(batch) ELSE store
         /\ up' = [up EXCEPT ![u] =
                     [@ EXCEPT !.vectors = rest,
                               !.written = IF ok THEN @ \cup {c.id : c \in Range(batch)} ELSE @,
                               !.skipped = IF ok THEN @ ELSE @ \cup {c.id : c \in Range(batch)},
                               !.attempted = @ + 1,
                               !.pc = NextBatchPc(rest, ok),
                               !.response = IF NextBatchPc(rest, ok) = "done"
                                            THEN IF rest = <<>> THEN 200 ELSE 500
                                            ELSE 0]]
         /\ hist' = [hist EXCEPT
                       !.pure[up[u].source] = @ /\ ok,
                       !.count[up[u].source] =
                          IF rest = <<>> /\ IsSharedUpload(up[u].user, up[u].accessLevel)
                          THEN @ + 1 ELSE @]
  /\ UNCHANGED <<pd, ls, now, gc, post, db, embeddingCache, pausedDocs, nextId, chat, st, del>>

\* the response is sent
UploadDone(u) ==
  /\ up[u].pc = "done"
  /\ up' = [up EXCEPT ![u] = IdleUp]
  /\ hist' = [hist EXCEPT !.pure[up[u].source] = @ /\ up[u].response = 200]
  /\ UNCHANGED <<pd, ls, now, gc, post, db, embeddingCache, store, pausedDocs, nextId, chat, st, del>>

(***************************************************************************)
(* Admin documents route, DELETE: the ids of the public chunks of a source *)
(* (of one version when a version is given) are fetched, then deleted.     *)
(* Version 0 stands for a request without a version.                       *)
(***************************************************************************)
DeleteFilter(source, version) ==
  IF version # 0
  THEN And(<< Eq("source", source), Eq("is_public", TRUE), Eq("version", version) >>)
  ELSE And(<< Eq("source", source), Eq("is_public", TRUE) >>)

\* versions an admin deletion names (0: none)
DeleteVersions == {0, 1, 2}

DeleteStart(source, version) ==
  /\ del.pc = "idle"
  /\ hist.deletes < MaxDeletes
  /\ del' = [IdleDel EXCEPT !.pc = "Query", !.source = source, !.version = version]
  /\ hist' = [hist EXCEPT !.deletes = @ + 1, !.pure[source] = FALSE]
  /\ UNCHANGED <<pd, ls, now, gc, post, db, embeddingCache, store, pausedDocs, nextId, up, chat, st>>

\* const queryResult = await pineconeIndex.query({topK: 10000, ...})
DeleteQuery ==
  /\ del.pc = "Query"
  /\ \E M \in Query(DeleteFilter(del.source, del.version), AllTopK, store) :
       del' = IF M # {} THEN [del EXCEPT !.pc = "Delete", !.ids = {c.id : c \in M}]
              ELSE IdleDel
  /\ UNCHANGED <<pd, ls, now, gc, post, db, embeddingCache, store, pausedDocs, nextId, up, chat, st, hist>>

\* await pineconeIndex.deleteMany(vectorIds)
DeleteMany ==
  /\ del.pc = "Delete"
  /\ store' = {c \in store : c.id \notin del.ids}
  /\ del' = IdleDel
  /\ UNCHANGED <<pd, ls, now, gc, post, db, embeddingCache, pausedDocs, nextId, up, chat, st, hist>>

(***************************************************************************)
(* SpecSeq: ingestions and admin deletions that do not overlap and never   *)
(* fail, from an empty store, with a default-mode retrieval interleaved at *)
(* every step.                                                             *)
(***************************************************************************)
InitSeq ==
  /\ store = {}
  /\ pausedDocs = <<>>
  /\ nextId = 1
  /\ up = [u \in Uploaders |-> IdleUp]
  /\ chat = IdleChat
  /\ st = [t \in Togglers |-> IdleSt]
  /\ del = IdleDel
  /\ hist = InitHist
  /\ post = IdlePost
  /\ db = EmptyDb
  /\ embeddingCache = {}
  /\ gc = IdleGc
  /\ ls = IdleList
  /\ now = 0
  /\ pd = IdlePrivateDelete

SeqUploads ==
  {<<Admin, "public", <<>>>>, <<Admin, "roles", <<"sales">>>>, <<Sales, "public", <<>>>>}

NextSeq ==
  \/ \E file \in ValidFiles, source \in Sources, a \in SeqUploads :
       Steady /\ UploadStart(1, a[1], file, source, a[2], a[3])
  \/ UploadLatestQuery(1)
  \/ UploadAllOldQuery(1)
  \/ \E id \in up[1].ids : UploadUpdate(1, id, TRUE)
  \/ UploadEmbed(1, TRUE)
  \/ UploadUpsert(1, TRUE)
  \/ UploadDone(1)
  \/ \E source \in Sources, version \in DeleteVersions :
       Steady /\ up[1].pc = "idle" /\ DeleteStart(source, version)
  \/ DeleteQuery
  \/ DeleteMany
  \/ ChatStart(Sales, "", <<>>)
  \/ ChatGetPausedDocs
  \/ ChatQuery
  \/ ChatDone

SpecSeq == InitSeq /\ [][NextSeq]_vars

(***************************************************************************)
(* admin/documents/status/route.ts POST: the registry file is read, the    *)
(* list changed in memory, and the file written back.                      *)
(***************************************************************************)
\* Array.from(new Set(docs)): the first occurrence of every entry, in order
RECURSIVE Dedup(_)
Dedup(docs) ==
  IF docs = <<>> THEN <<>>
  ELSE LET init == Dedup(SubSeq(docs, 1, Len(docs) - 1))
           last == docs[Len(docs)]
       IN  IF last \in Range(init) THEN init ELSE Append(init, last)

\* lines 38-44
\* (mutant: the source is pushed or filtered out whatever the status asked)
Toggle_Flip(docs, source, status) ==
  IF source \notin Range(docs) THEN Append(docs, source)
  ELSE SelectSeq(docs, LAMBDA d : d # source)
Toggle(docs, source, status) ==
  IF status = "paused" /\ source \notin Range(docs) THEN Append(docs, source)
  ELSE IF status = "active" /\ source \in Range(docs)
       THEN SelectSeq(docs, LAMBDA d : d # source)
       ELSE docs

Statuses == {"active", "paused"}

\* session and body checks pass: admin, a source and a valid status
\* !session || session.user?.role !== 'admin'
\* (mutant: any principal passes)
IsAdminSession_Any(user) == TRUE
IsAdminSession(user) == user.role = "admin"

\* the session check and the check of the body
StatusPost(t, user, source, status) ==
  /\ st[t].pc = "idle"
  /\ hist.toggles < MaxRequests
  /\ LET r == [IdleSt EXCEPT !.user = user, !.source = source, !.status = status]
     IN  st' = [st EXCEPT ![t] =
                  IF ~IsAdminSession(user)
                  THEN [r EXCEPT !.pc = "Rejected", !.response = 401]
                  ELSE IF source = "" \/ status \notin Statuses
                  THEN [r EXCEPT !.pc = "Rejected", !.response = 400]
                  ELSE [r EXCEPT !.pc = "Read"]]
  /\ hist' = [hist EXCEPT !.toggles = @ + 1]
  /\ UNCHANGED <<pd, ls, now, gc, post, db, embeddingCache, store, pausedDocs, nextId, up, chat, del>>

\* the request of an administrator
StatusStart(t, source, status) == StatusPost(t, Admin, source, status)

\* the 401 or 400 response is sent
StatusDone(t) ==
  /\ st[t].pc = "Rejected"
  /\ st' = [st EXCEPT ![t] = IdleSt]
  /\ UNCHANGED <<pd, ls, now, gc, post, db, embeddingCache, store, pausedDocs, nextId, up, chat, del, hist>>

\* let pausedDocs = await getPausedDocs(), then the change in memory
StatusRead(t) ==
  /\ st[t].pc = "Read"
  /\ st' = [st EXCEPT ![t] = [@ EXCEPT !.pc = "Write",
                                       !.pausedDocs = Toggle(pausedDocs, st[t].source,
                                                             st[t].status)]]
  /\ UNCHANGED <<pd, ls, now, gc, post, db, embeddingCache, store, pausedDocs, nextId, up, chat, del, hist>>

\* await savePausedDocs(pausedDocs), then the response
StatusWrite(t) ==
  /\ st[t].pc = "Write"
  /\ pausedDocs' = Dedup(st[t].pausedDocs)
  /\ st' = [st EXCEPT ![t] = IdleSt]
  /\ hist' = [hist EXCEPT !.paused = IF st[t].status = "paused"
                                     THEN @ \cup {st[t].source}
                                     ELSE @ \ {st[t].source}]
  /\ UNCHANGED <<pd, ls, now, gc, post, db, embeddingCache, store, nextId, up, chat, del>>

(***************************************************************************)
(* SpecPause: concurrent pause/activate requests and chat retrievals over  *)
(* a store that holds a chunk of every access tag for every source.        *)
(***************************************************************************)
InitPause ==
  /\ store = Universe
  /\ pausedDocs = <<>>
  /\ nextId = 1
  /\ up = [u \in Uploaders |-> IdleUp]
  /\ chat = IdleChat
  /\ st = [t \in Togglers |-> IdleSt]
  /\ del = IdleDel
  /\ hist = InitHist
  /\ post = IdlePost
  /\ db = EmptyDb
  /\ embeddingCache = {}
  /\ gc = IdleGc
  /\ ls = IdleList
  /\ now = 0
  /\ pd = IdlePrivateDelete

NextPause ==
  \/ \E t \in Togglers, source \in Sources, status \in Statuses :
       StatusStart(t, source, status)
  \/ \E t \in Togglers : StatusRead(t)
  \/ \E t \in Togglers : StatusWrite(t)
  \/ \E user \in Principals, source \in Sources \cup {""}, version \in VersionStrings :
       ChatStart(user, source, version)
  \/ ChatGetPausedDocs
  \/ ChatQuery
  \/ ChatDone

SpecPause == InitPause /\ [][NextPause]_vars

(***************************************************************************)
(* Spec: concurrent upload requests, valid and invalid, whose store and    *)
(* embedding calls may fail.                                               *)
(***************************************************************************)
Init == InitSeq

UploadKinds ==
  {<<Admin, "public", <<>>>>, <<Admin, "roles", <<"sales">>>>,
   <<Admin, "roles", <<"">>>>, <<Admin, "private", <<>>>>,
   <<Sales, "roles", <<"sales">>>>}

Next ==
  \/ \E u \in Uploaders, file \in ValidFiles \cup InvalidFiles,
        source \in Sources, a \in UploadKinds :
       UploadStart(u, a[1], file, source, a[2], a[3])
  \/ \E u \in Uploaders : UploadLatestQuery(u)
  \/ \E u \in Uploaders : UploadAllOldQuery(u)
  \/ \E u \in Uploaders, ok \in BOOLEAN : \E id \in up[u].ids : UploadUpdate(u, id, ok)
  \/ \E u \in Uploaders, ok \in BOOLEAN : UploadEmbed(u, ok)
  \/ \E u \in Uploaders, ok \in BOOLEAN : UploadUpsert(u, ok)
  \/ \E u \in Uploaders : UploadDone(u)

Spec == Init /\ [][Next]_vars

(***************************************************************************)
(* Claims on the retrieval filter (SpecFilter).                            *)
(***************************************************************************)
DefaultRetrieved == chat.pc = "Retrieved" /\ ~ExplicitMode(chat.source, chat.version)
ExplicitRetrieved == chat.pc = "Retrieved" /\ ExplicitMode(chat.source, chat.version)

IsPrivate(c) == c.user_id # NoUser
IsRoles(c) == c.roles # {}

\* C1: in default mode no retrieved chunk is private to a user other than
\* the principal of the request, whatever the store holds.
C1_NoForeignPrivate ==
  DefaultRetrieved =>
    \A c \in chat.result : IsPrivate(c) => c.user_id = chat.user.id

\* a default-mode retrieval over a store holding another user's private
\* chunk returned the principal's own private chunk
C1_Witness ==
  /\ DefaultRetrieved
  /\ \E c \in store : IsPrivate(c) /\ c.user_id # chat.user.id
                      /\ c.source \notin Range(chat.pausedDocs)
  /\ \E c \in chat.result : IsPrivate(c)

\* C2: in explicit-version mode every retrieved chunk has the requested
\* source, the requested version and the public tag; none is private and
\* none is role-restricted.
C2_ExplicitPublicOnly ==
  ExplicitRetrieved =>
    \A c \in chat.result :
      /\ c.source = chat.source
      /\ c.version = ParseInt(chat.version)
      /\ c.is_public
      /\ ~IsPrivate(c)
      /\ ~IsRoles(c)

\* an explicit-version retrieval returned a chunk while the store held a
\* role-restricted chunk of the same source and version and a private chunk
\* of the same source
C2_Witness ==
  /\ ExplicitRetrieved
  /\ chat.result # {}
  /\ \E c \in store : IsRoles(c) /\ c.source = chat.source
                      /\ c.version = ParseInt(chat.version)
  /\ \E c \in store : IsPrivate(c) /\ c.source = chat.source

\* the example of the specification: private(u2), roles([sales]) latest,
\* public not latest, all of one source
ExampleStore(s) ==
  {c \in Universe : c.source = s /\
     \/ c.user_id = "u2"
     \/ (c.roles = {"sales"} /\ c.is_latest)
     \/ (c.is_public /\ ~c.is_latest)}

\* C3: in default mode a role-restricted chunk is retrieved only when the
\* principal has a role, the role is in the chunk's role set and the chunk is
\* latest; a public chunk only when it is latest; and u1/sales against the
\* example store retrieves exactly the roles([sales]) chunk.
C3_RoleAndLatest ==
  DefaultRetrieved =>
    /\ \A c \in chat.result :
         /\ IsRoles(c) => (chat.user.role # NoRole /\ chat.user.role \in c.roles
                           /\ c.is_latest)
         /\ c.is_public => c.is_latest
    /\ \A s \in Sources :
         (store = ExampleStore(s) /\ chat.user = Sales /\ chat.pausedDocs = <<>>)
           => chat.result = {c \in store : c.roles = {"sales"}}

\* u1/sales has queried the example store in default mode
C3_Witness ==
  /\ DefaultRetrieved
  /\ chat.user = Sales
  /\ chat.pausedDocs = <<>>
  /\ \E s \in Sources : store = ExampleStore(s) /\ Cardinality(store) = 3
  /\ Cardinality(chat.result) = 1

(***************************************************************************)
(* Claims on sequential, failure-free ingestion (SpecSeq).                 *)
(***************************************************************************)
IsShared(c) == c.is_public \/ IsRoles(c)
Of(s) == {c \in store : c.source = s}
LatestVersions(s) == {c.version : c \in {d \in Of(s) : IsShared(d) /\ d.is_latest}}

\* what a default-mode retrieval by principal p returns of source s now
DefaultResults(p, s) ==
  UNION { {c \in R : c.source = s} :
          R \in Query(ChatFilter(p, "", <<>>, pausedDocs), ChatTopK, store) }

C6_OneLatestVersion ==
  Steady => \A s \in Sources : Cardinality(LatestVersions(s)) <= 1

\* steady state after two shared ingestions of a source and an admin
\* deletion: one version latest, chunks of the older version stored
C6_Witness ==
  /\ Steady
  /\ hist.deletes > 0
  /\ \E s \in Sources :
       /\ Cardinality(LatestVersions(s)) = 1
       /\ \E c \in Of(s) : IsShared(c) /\ ~c.is_latest

\* C7: a default-mode retrieval never returns chunks of two versions of one
\* source, at whatever step of a failure-free shared ingestion it runs.
C7_ConsistentRollover ==
  DefaultRetrieved =>
    \A c, d \in chat.result :
      (c.source = d.source /\ IsShared(c) /\ IsShared(d)) => c.version = d.version

\* a retrieval ran while the old chunks of a source were being cleared, some
\* cleared and some not yet, and returned a chunk of that source
C7_Witness ==
  /\ DefaultRetrieved
  /\ chat.during = "RollingOver"
  /\ up[1].pc = "RollingOver"
  /\ up[1].cleared # {} /\ up[1].ids # {}
  /\ \E c \in chat.result : c.source = up[1].source /\ IsShared(c)

(***************************************************************************)
(* Claims on pausing (SpecPause).                                          *)
(***************************************************************************)
\* C4: a retrieval that starts after setStatus(source, paused) has completed
\* and before setStatus(source, active) is applied returns no chunk of that
\* source, in either mode and whatever the chunk's access tag.
C4_PausedExcluded ==
  chat.pc = "Retrieved" => \A c \in chat.result : c.source \notin chat.mustExclude

\* the same requests, none starting while another pause/activate request is
\* between its read and its write of the registry file
NextPauseSeq ==
  \/ \E t \in Togglers, source \in Sources, status \in Statuses :
       (\A x \in Togglers : st[x].pc = "idle") /\ StatusStart(t, source, status)
  \/ \E t \in Togglers : StatusRead(t)
  \/ \E t \in Togglers : StatusWrite(t)
  \/ \E user \in Principals, source \in Sources \cup {""}, version \in VersionStrings :
       ChatStart(user, source, version)
  \/ ChatGetPausedDocs
  \/ ChatQuery
  \/ ChatDone

SpecPauseSeq == InitPause /\ [][NextPauseSeq]_vars

(***************************************************************************)
(* Claims on concurrent and failing ingestion (Spec).                      *)
(***************************************************************************)
Versioned(u) ==
  /\ up[u].pc \in {"RollQuery", "RollingOver", "Embedding", "Writing"}
  /\ IsSharedUpload(up[u].user, up[u].accessLevel)

\* C8: two shared ingestions of one source that are in progress together
\* never run with the same version number.
C8_SerializedPerSource ==
  \A u, v \in Uploaders :
    (u # v /\ Versioned(u) /\ Versioned(v) /\ up[u].source = up[v].source)
      => up[u].version # up[v].version

\* C9: an ingestion answered 400 has cleared no is_latest flag and written
\* no chunk.
C9_RejectedNoSideEffects ==
  \A u \in Uploaders :
    (up[u].pc = "done" /\ up[u].response = 400)
      => (up[u].cleared = {} /\ up[u].written = {})

\* C10: an ingestion with valid roles one of whose is_latest updates failed
\* does not end before it has gone through the remaining ids and written the
\* new version, marked latest.
C10_UpdateFailureContinues ==
  \A u \in Uploaders :
    (up[u].updateFailed /\ up[u].pc = "done"
     /\ ~(up[u].accessLevel = "roles" /\ ParseRoles(up[u].rolesStr) = {}))
      => /\ up[u].ids = {}
         /\ \E c \in store : c.id \in up[u].written /\ c.is_latest
                             /\ c.version = up[u].version

(***************************************************************************)
(* SpecBatch: uploads of documents that split into more chunks than one    *)
(* upsert call takes, each upsert call succeeding or failing.  The store   *)
(* starts with version 1 of a.pdf.                                         *)
(***************************************************************************)
\* number of such uploads one behaviour starts
MaxBigUploads == 1

BigFiles ==
  {File(TRUE, "text/plain", 1024, n) : n \in {batchSize + 1, 2 * batchSize + MaxChunks}}

BatchUploads == {<<Admin, "public", <<>>>>, <<Sales, "private", <<>>>>}

\* number of upsert calls the loop makes for n vectors
Batches(n) == (n + batchSize - 1) \div batchSize

InitBatch ==
  /\ store = {NewChunk(1, Admin, "a.pdf", "public", <<>>, 1)}
  /\ pausedDocs = <<>>
  /\ nextId = 2
  /\ up = [u \in Uploaders |-> IdleUp]
  /\ chat = IdleChat
  /\ st = [t \in Togglers |-> IdleSt]
  /\ del = IdleDel
  /\ hist = InitHist
  /\ post = IdlePost
  /\ db = EmptyDb
  /\ embeddingCache = {}
  /\ gc = IdleGc
  /\ ls = IdleList
  /\ now = 0
  /\ pd = IdlePrivateDelete

NextBatch ==
  \/ \E file \in BigFiles, source \in Sources, a \in BatchUploads :
       hist.uploads < MaxBigUploads /\ UploadStart(1, a[1], file, source, a[2], a[3])
  \/ UploadLatestQuery(1)
  \/ UploadAllOldQuery(1)
  \/ \E id \in up[1].ids :
       (\A j \in up[1].ids : id <= j) /\ UploadUpdate(1, id, TRUE)
  \/ UploadEmbed(1, TRUE)
  \/ \E ok \in BOOLEAN : UploadUpsert(1, ok)
  \/ UploadDone(1)

SpecBatch == InitBatch /\ [][NextBatch]_vars

(***************************************************************************)
(* Claims on failures during ingestion (SpecBatch, Spec).                  *)
(***************************************************************************)
\* C11: in the Writing step a failed batch is skipped, every later batch is
\* still attempted, and the chunks of the batches upserted before stay in the
\* store: the chunks written are in the store and are none of the skipped
\* ones, and the request ends only when every batch was attempted, each chunk
\* of the document then being either written or skipped.
C11_BatchSkipped ==
  \A u \in Uploaders :
    up[u].pc \in {"Writing", "done"} /\ up[u].attempted > 0
      => /\ up[u].written \subseteq {c.id : c \in store}
         /\ up[u].written \cap up[u].skipped = {}
         /\ up[u].pc = "done"
              => /\ up[u].attempted = Batches(up[u].nChunks)
                 /\ Cardinality(up[u].written \cup up[u].skipped) = up[u].nChunks

\* a request that ended after a failed batch between two successful ones
C11_Witness ==
  \E u \in Uploaders :
    /\ up[u].pc = "done"
    /\ \E i, k \in up[u].written, j \in up[u].skipped : i < j /\ j < k
    /\ \E c \in store : c.id \in up[u].written

(***************************************************************************)
(* SpecUpload: upload requests one after the other, valid and invalid, of  *)
(* every kind, whose store and embedding calls may fail.                   *)
(***************************************************************************)
NextUpload ==
  \/ \E file \in ValidFiles \cup InvalidFiles, source \in Sources, a \in UploadKinds :
       UploadStart(1, a[1], file, source, a[2], a[3])
  \/ UploadLatestQuery(1)
  \/ UploadAllOldQuery(1)
  \/ \E ok \in BOOLEAN : \E id \in up[1].ids : UploadUpdate(1, id, ok)
  \/ \E ok \in BOOLEAN : UploadEmbed(1, ok)
  \/ \E ok \in BOOLEAN : UploadUpsert(1, ok)
  \/ UploadDone(1)

SpecUpload == Init /\ [][NextUpload]_vars

\* C12: an ingestion during which a batch upsert failed does not answer with
\* the success response.
C12_PartialReported ==
  \A u \in Uploaders :
    (up[u].pc = "done" /\ up[u].skipped # {}) => up[u].response # 200

\* C13: an ingestion of several chunks during which the embedding of a chunk
\* failed does not end before an upsert of the remaining chunks was made.
C13_EmbedFailureContinues ==
  \A u \in Uploaders :
    (up[u].pc = "done" /\ up[u].embedFailed /\ up[u].nChunks > 1)
      => up[u].attempted > 0

\* C14: an ingestion whose extracted text is empty ends with the failure
\* response 500, has made no latest-version query, cleared no is_latest flag
\* and made no upsert.
C14_EmptyExtraction ==
  \A u \in Uploaders :
    (up[u].pc # "idle" /\ up[u].extracted /\ up[u].nChunks = 0)
      => /\ up[u].pc = "done"
         /\ up[u].response = 500
         /\ ~up[u].probed
         /\ up[u].cleared = {}
         /\ up[u].attempted = 0
         /\ up[u].written = {}

\* a shared upload with empty text of a source that has a latest version
C14_Witness ==
  \E u \in Uploaders :
    /\ up[u].pc = "done" /\ up[u].extracted /\ up[u].nChunks = 0
    /\ up[u].user = Admin /\ up[u].accessLevel = "public"
    /\ \E c \in store : c.source = up[u].source /\ c.is_latest

\* the upload of request u is by a non-admin or asks for the private level
PrivateUpload(r) == r.user.role # "admin" \/ r.accessLevel = "private"

\* C15: a step of an upload by a non-admin, or asking for the private level,
\* leaves every chunk of the store as it is, and every chunk it adds is
\* private to the uploader: user_id is the principal's id, no public tag, no
\* roles, no version, no is_latest.
C15_PrivateUpload ==
  [][\A u \in Uploaders :
       (up'[u] # up[u] /\ up'[u].pc # "idle" /\ PrivateUpload(up'[u]))
         => /\ store \subseteq store'
            /\ \A c \in store' \ store :
                 /\ c.user_id = up'[u].user.id
                 /\ ~c.is_public
                 /\ c.roles = {}
                 /\ c.version = NoVersion
                 /\ ~c.is_latest]_vars

\* a non-admin who asked for the roles level has written chunks of a source
\* that has a shared latest version
C15_Witness ==
  \E u \in Uploaders :
    /\ up[u].user = Sales /\ up[u].accessLevel = "roles"
    /\ \E c \in store : c.id \in up[u].written /\ c.user_id = Sales.id
    /\ \E c \in store : c.source = up[u].source /\ c.is_latest

(***************************************************************************)
(* chat/route.ts POST: the whole pipeline.  A string the handler looks     *)
(* into is the sequence of its characters; a text that is stored or sent   *)
(* is the sequence of the pieces it was put together from.                 *)
(***************************************************************************)
\* number of chat requests one behaviour starts
MaxChats == 2
\* largest number of tokens the generation provider streams
MaxTokens == 2

\* z.string().max(2000)
maxQueryLength == 2000
\* a conversationId that is not a uuid
BadConversation == -1

UpperCase ==
  << "A", "B", "C", "D", "E", "F", "G", "H", "I", "J", "K", "L", "M",
     "N", "O", "P", "Q", "R", "S", "T", "U", "V", "W", "X", "Y", "Z" >>
LowerCase ==
  << "a", "b", "c", "d", "e", "f", "g", "h", "i", "j", "k", "l", "m",
     "n", "o", "p", "q", "r", "s", "t", "u", "v", "w", "x", "y", "z" >>

toLowerCase(str) ==
  [i \in DOMAIN str |->
     IF \E k \in DOMAIN UpperCase : UpperCase[k] = str[i]
     THEN LowerCase[CHOOSE k \in DOMAIN UpperCase : UpperCase[k] = str[i]]
     ELSE str[i]]

includes(str, word) ==
  \E i \in 0..(Len(str) - Len(word)) : SubSeq(str, i + 1, i + Len(word)) = word

sensitiveKeywords ==
  << <<"h", "a", "r", "a", "s", "s", "m", "e", "n", "t">>,
     <<"f", "r", "a", "u", "d">>,
     <<"i", "l", "l", "e", "g", "a", "l">>,
     <<"u", "n", "e", "t", "h", "i", "c", "a", "l">>,
     <<"w", "h", "i", "s", "t", "l", "e", "b", "l", "o", "w", "e", "r">>,
     <<"d", "i", "s", "c", "r", "i", "m", "i", "n", "a", "t", "i", "o", "n">>,
     <<"m", "i", "s", "c", "o", "n", "d", "u", "c", "t">> >>

isSensitiveQuery(query) ==
  \E k \in DOMAIN sensitiveKeywords : includes(toLowerCase(query), sensitiveKeywords[k])

\* if (isSensitiveQuery && persona === 'default'), persona defaulting to
\* 'default' when the request has none
TakesBypass(query, persona) == isSensitiveQuery(query) /\ persona = "default"

\* chatRequestSchema.safeParse
\* (mutant: the schema without the bounds on the query)
ValidRequest_NoLength(query, conversationId) ==
  conversationId # BadConversation
ValidRequest(query, conversationId) ==
  /\ Len(query) >= 1
  /\ Len(query) <= maxQueryLength
  /\ conversationId # BadConversation

\* a request without a session, or whose session has no user id
Anonymous == [id |-> "", role |-> NoRole]

\* !session || !session.user?.id
Authenticated(user) == user.id # ""

safeResponseContent == "It sounds like you are asking about a serious matter. ..."
NoInformation == "I couldn't find any relevant information in the documents for your query."
SensitiveTitle == "Sensitive Inquiry"

\* rows of the tables
Conversation(id, userId, title) == [id |-> id, userId |-> userId, title |-> title]
\* createdAt: new Date(), kept in whole seconds (integer, mode 'timestamp')
Message(id, conversationId, role, content, req) ==
  [id |-> id, conversationId |-> conversationId, role |-> role,
   content |-> content, createdAt |-> now, req |-> req]
SourceRow(messageId, doc, req) == [messageId |-> messageId, doc |-> doc, req |-> req]

\* relevantDocs.map(doc => ({messageId: assistantMessageId, ...}))
\* (mutant: the rows name the message inserted before the assistant message)
SourcesToInsert_Previous(r) ==
  {SourceRow(r.assistantMessageId - 1, c.id, r.req) : c \in r.relevantDocs}
SourcesToInsert(r) ==
  {SourceRow(r.assistantMessageId, c.id, r.req) : c \in r.relevantDocs}

\* uuidv4(): an id no row of the table has
NewConversationId == Cardinality(db.conversations) + 1
NewMessageId == Len(db.messages) + 1

\* the two rows the bypass inserts (lines 129-130), in the order of the inserts
\* (mutant: the assistant row first)
SafeMessages_Swapped(conversationId, query, req) ==
  << Message(NewMessageId, conversationId, "assistant", <<safeResponseContent>>, req),
     Message(NewMessageId, conversationId, "user", query, req) >>
SafeMessages(conversationId, query, req) ==
  << Message(NewMessageId, conversationId, "user", query, req),
     Message(NewMessageId, conversationId, "assistant", <<safeResponseContent>>, req) >>

\* if (relevantDocs.length === 0)
\* (mutant: the test is never true)
NoMatches_Never(docs) == FALSE
NoMatches(docs) == docs = {}

\* flush runs when the provider's stream has been read to its end
\* (mutant: it may run before)
StreamEnded_Any(tokensLeft) == TRUE
StreamEnded(tokensLeft) == tokensLeft = 0

Log(r, event) == [r EXCEPT !.events = Append(@, event)]

Personas == {"default", "legal"}

\* the request is parsed and validated, and the safeguard looks at the query
\* db.query.messages.findMany({where: eq(messages.conversationId, ...)})
PastMessages(d, conversationId) ==
  SelectSeq(d.messages, LAMBDA m : m.conversationId = conversationId)

\* if (conversationId): the history is loaded, else a conversation is created
\* (mutant: neither, the request goes on to the embedding)
FirstStep_Skip(conversationId) == "Embed"
FirstStep(conversationId) ==
  IF conversationId = NoConversation THEN "Conversation" ELSE "History"

PostStart(user, query, conversationId, source, version, persona) ==
  /\ post.pc = "idle"
  /\ post.req < MaxChats
  /\ LET r == [IdlePost EXCEPT !.req = post.req + 1, !.user = user, !.query = query,
                               !.persona = persona, !.conversationId = conversationId,
                               !.source = source, !.version = version]
     IN  post' =
           IF ~Authenticated(user)
           THEN [r EXCEPT !.pc = "done", !.response.status = 401]
           ELSE IF ~ValidRequest(query, conversationId)
           THEN [r EXCEPT !.pc = "done", !.response.status = 400]
           ELSE IF TakesBypass(query, persona)
           THEN [r EXCEPT !.bypass = TRUE,
                          !.pc = IF conversationId = NoConversation
                                 THEN "SafeConversation" ELSE "SafeUser"]
           ELSE [r EXCEPT !.pc = FirstStep(conversationId)]
  /\ UNCHANGED <<pd, ls, now, gc, store, pausedDocs, nextId, up, chat, st, del, hist, db, embeddingCache>>

\* bypass: await db.insert(conversations) with the generic title
PostSafeConversation ==
  /\ post.pc = "SafeConversation"
  /\ db' = [db EXCEPT !.conversations =
              @ \cup {Conversation(NewConversationId, post.user.id, <<SensitiveTitle>>)}]
  /\ post' = [post EXCEPT !.pc = "SafeUser", !.conversationId = NewConversationId]
  /\ UNCHANGED <<pd, ls, now, gc, store, pausedDocs, nextId, up, chat, st, del, hist, embeddingCache>>

\* bypass: await db.insert(messages) of the user row
PostSafeUser ==
  /\ post.pc = "SafeUser"
  /\ db' = [db EXCEPT !.messages =
              Append(@, SafeMessages(post.conversationId, post.query, post.req)[1])]
  /\ post' = Log([post EXCEPT !.pc = "SafeAssistant"], "userMessage")
  /\ UNCHANGED <<pd, ls, now, gc, store, pausedDocs, nextId, up, chat, st, del, hist, embeddingCache>>

\* bypass: await db.insert(messages) of the assistant row, then the response:
\* a stream of one chunk, an empty source list, the conversation id
PostSafeAssistant ==
  /\ post.pc = "SafeAssistant"
  /\ db' = [db EXCEPT !.messages =
              Append(@, SafeMessages(post.conversationId, post.query, post.req)[2])]
  /\ post' = Log([post EXCEPT !.pc = "done",
                              !.response = [status |-> 200,
                                            body |-> <<safeResponseContent>>,
                                            sources |-> {},
                                            conversationId |-> post.conversationId]],
                 "assistantMessage")
  /\ UNCHANGED <<pd, ls, now, gc, store, pausedDocs, nextId, up, chat, st, del, hist, embeddingCache>>

\* await db.query.messages.findMany: the history of the given conversation
PostHistory ==
  /\ post.pc = "History"
  /\ post' = [post EXCEPT !.pc = "User",
                          !.chatHistory = PastMessages(db, post.conversationId)]
  /\ UNCHANGED <<pd, ls, now, gc, store, pausedDocs, nextId, up, chat, st, del, hist, db, embeddingCache>>

\* await db.insert(conversations) titled with the start of the query
PostConversation ==
  /\ post.pc = "Conversation"
  /\ db' = [db EXCEPT !.conversations =
              @ \cup {Conversation(NewConversationId, post.user.id,
                                   SubSeq(post.query, 1, Min(50, Len(post.query))))}]
  /\ post' = [post EXCEPT !.pc = "User", !.conversationId = NewConversationId]
  /\ UNCHANGED <<pd, ls, now, gc, store, pausedDocs, nextId, up, chat, st, del, hist, embeddingCache>>

\* await db.insert(messages) of the user row
PostUser ==
  /\ post.pc = "User"
  /\ db' = [db EXCEPT !.messages =
              Append(@, Message(NewMessageId, post.conversationId, "user",
                                post.query, post.req))]
  /\ post' = Log([post EXCEPT !.pc = "Embed"], "userMessage")
  /\ UNCHANGED <<pd, ls, now, gc, store, pausedDocs, nextId, up, chat, st, del, hist, embeddingCache>>

\* the query embedding, from the cache or from the provider; retrieval starts
PostEmbed ==
  /\ post.pc = "Embed"
  /\ post' = IF post.query \in embeddingCache
             THEN [post EXCEPT !.pc = "Retrieving"]
             ELSE Log([post EXCEPT !.pc = "Retrieving"], "embedQuery")
  /\ embeddingCache' = embeddingCache \cup {post.query}
  /\ chat' = [IdleChat EXCEPT !.pc = "Retrieve", !.user = post.user,
                              !.source = post.source, !.version = post.version]
  /\ UNCHANGED <<pd, ls, now, gc, store, pausedDocs, nextId, up, st, del, hist, db>>

\* the matches are mapped to relevantDocs; none: the fixed JSON answer
PostRetrieved ==
  /\ post.pc = "Retrieving"
  /\ chat.pc = "Retrieved"
  /\ chat' = IdleChat
  /\ post' = Log(IF NoMatches(chat.result)
                 THEN [post EXCEPT !.pc = "done", !.relevantDocs = chat.result,
                                   !.response = [status |-> 200,
                                                 body |-> <<NoInformation>>,
                                                 sources |-> {},
                                                 conversationId |-> NoConversation]]
                 ELSE [post EXCEPT !.pc = "Generate", !.relevantDocs = chat.result],
                 "query")
  /\ UNCHANGED <<pd, ls, now, gc, store, pausedDocs, nextId, up, st, del, hist, db, embeddingCache>>

\* const llmStream = await chain.stream(...); the response is returned with
\* the piped stream as body and the retrieved chunks in its header
PostGenerate ==
  /\ post.pc = "Generate"
  /\ \E n \in 0..MaxTokens :
       post' = Log([post EXCEPT !.pc = "Streaming", !.tokensLeft = n,
                                !.response = [status |-> 200, body |-> <<>>,
                                              sources |-> {c.id : c \in post.relevantDocs},
                                              conversationId |-> post.conversationId]],
                   "generate")
  /\ UNCHANGED <<pd, ls, now, gc, store, pausedDocs, nextId, up, chat, st, del, hist, db, embeddingCache>>

\* the chunk the provider's stream yields when n chunks are still to come
Token(n) == ToString(n)

\* accumulatedResponse += decodedChunk
\* (mutant: the chunk replaces what was accumulated)
Accumulate_Replace(acc, chunk) == <<chunk>>
Accumulate(acc, chunk) == Append(acc, chunk)

\* transform(chunk): the token is accumulated and passed on to the client
PostToken ==
  /\ post.pc = "Streaming"
  /\ post.tokensLeft > 0
  /\ post' = [post EXCEPT !.tokensLeft = @ - 1,
                          !.accumulatedResponse = Accumulate(@, Token(post.tokensLeft)),
                          !.response.body = Append(@, Token(post.tokensLeft))]
  /\ UNCHANGED <<pd, ls, now, gc, store, pausedDocs, nextId, up, chat, st, del, hist, db, embeddingCache>>

\* flush: the accumulated text, when there is any, is inserted as the
\* assistant row
PostFlush ==
  /\ post.pc = "Streaming"
  /\ StreamEnded(post.tokensLeft)
  /\ IF post.accumulatedResponse # <<>>
     THEN /\ db' = [db EXCEPT !.messages =
                      Append(@, Message(NewMessageId, post.conversationId, "assistant",
                                        post.accumulatedResponse, post.req))]
          /\ post' = Log(Log([post EXCEPT !.pc = "Sources",
                                          !.assistantMessageId = NewMessageId],
                             IF post.tokensLeft = 0 THEN "streamEnd" ELSE "streaming"),
                         "assistantMessage")
     ELSE /\ db' = db
          /\ post' = Log([post EXCEPT !.pc = "done"], "streamEnd")
  /\ UNCHANGED <<pd, ls, now, gc, store, pausedDocs, nextId, up, chat, st, del, hist, embeddingCache>>

\* flush, after the insert of the assistant row: the source rows
PostSources ==
  /\ post.pc = "Sources"
  /\ db' = [db EXCEPT !.sources = @ \cup SourcesToInsert(post)]
  /\ post' = Log([post EXCEPT !.pc = "done"], "sources")
  /\ UNCHANGED <<pd, ls, now, gc, store, pausedDocs, nextId, up, chat, st, del, hist, embeddingCache>>

\* the client cancels the response stream: the pipe is torn down and flush
\* is not called
PostCancel ==
  /\ post.pc = "Streaming"
  /\ post' = [post EXCEPT !.pc = "done", !.cancelled = TRUE]
  /\ UNCHANGED <<pd, ls, now, gc, store, pausedDocs, nextId, up, chat, st, del, hist, db, embeddingCache>>

\* the request is over
PostDone ==
  /\ post.pc = "done"
  /\ post' = [IdlePost EXCEPT !.req = post.req]
  /\ UNCHANGED <<pd, ls, now, gc, store, pausedDocs, nextId, up, chat, st, del, hist, db, embeddingCache>>

(***************************************************************************)
(* SpecChat: chat requests one after the other over a small store.         *)
(***************************************************************************)
Queries ==
  { <<>>,
    <<"f", "r", "a", "u", "d">>,
    <<"a", " ", "F", "r", "A", "U", "D", "?">>,
    <<"f", "r", "a", "u", " ", "d">> }

ChatStores ==
  { {},
    {NewChunk(1, Admin, "a.pdf", "public", <<>>, 2),
     NewChunk(2, Sales, "b.txt", "private", <<>>, 1)} }

InitChat ==
  /\ store \in ChatStores
  /\ pausedDocs = <<>>
  /\ nextId = 3
  /\ up = [u \in Uploaders |-> IdleUp]
  /\ chat = IdleChat
  /\ st = [t \in Togglers |-> IdleSt]
  /\ del = IdleDel
  /\ hist = InitHist
  /\ post = IdlePost
  /\ db = EmptyDb
  /\ embeddingCache = {}
  /\ gc = IdleGc
  /\ ls = IdleList
  /\ now = 0
  /\ pd = IdlePrivateDelete

NextChat ==
  \/ \E user \in {Sales, Admin}, query \in Queries,
        conversationId \in {NoConversation, BadConversation}
                             \cup {c.id : c \in db.conversations},
        source \in {"", "a.pdf"}, persona \in Personas :
       PostStart(user, query, conversationId, source,
                 IF source = "" THEN <<>> ELSE <<"1">>, persona)
  \/ PostSafeConversation
  \/ PostSafeUser
  \/ PostSafeAssistant
  \/ PostHistory
  \/ PostConversation
  \/ PostUser
  \/ PostEmbed
  \/ ChatGetPausedDocs
  \/ ChatQuery
  \/ PostRetrieved
  \/ PostGenerate
  \/ PostToken
  \/ PostFlush
  \/ PostSources
  \/ PostCancel
  \/ PostDone

SpecChat == InitChat /\ [][NextChat]_vars

(***************************************************************************)
(* Claims on the chat pipeline (SpecChat).                                 *)
(***************************************************************************)
Events == Range(post.events)

\* every occurrence of event b in the request's list comes after one of a
Before(a, b) ==
  \A j \in DOMAIN post.events :
    post.events[j] = b => \E i \in 1..(j - 1) : post.events[i] = a

\* the rows of the messages table the current request inserted
MyMessages == SelectSeq(db.messages, LAMBDA m : m.req = post.req)

\* C16: a valid request whose query contains a sensitive keyword makes no
\* embedding call, no vector-store query and no generation call, whatever its
\* other fields.
C16_SensitiveShortCircuits ==
  (post.pc # "idle" /\ isSensitiveQuery(post.query)
   /\ ValidRequest(post.query, post.conversationId))
    => /\ Events \cap {"embedQuery", "query", "generate"} = {}
       /\ chat.pc = "idle"

\* C17: a request that took the bypass and has returned has inserted exactly
\* two message rows in its conversation, the user row holding the query and
\* then the assistant row holding the safety text, no source row, and its
\* response is the safety text as one chunk with an empty source list.
C17_BypassPersists ==
  (post.pc = "done" /\ post.bypass)
    => /\ Len(MyMessages) = 2
       /\ MyMessages[1].role = "user"
       /\ MyMessages[1].content = post.query
       /\ MyMessages[2].role = "assistant"
       /\ MyMessages[2].content = <<safeResponseContent>>
       /\ \A i \in 1..2 : MyMessages[i].conversationId = post.conversationId
       /\ \A row \in db.sources : row.req # post.req
       /\ post.response.status = 200
       /\ post.response.body = <<safeResponseContent>>
       /\ post.response.sources = {}

\* a bypass for a mixed-case query in a conversation that holds the rows of
\* an earlier generated answer
C17_Witness ==
  /\ post.pc = "done" /\ post.bypass
  /\ post.query # toLowerCase(post.query)
  /\ db.sources # {}
  /\ \E i \in DOMAIN db.messages :
       /\ db.messages[i].req # post.req
       /\ db.messages[i].conversationId = post.conversationId

\* C18: in a request that does not take the bypass, the user row is inserted
\* before the generation provider is called, the assistant row only after the
\* provider's stream has ended, and the source rows after the assistant row
\* they reference.
C18_PersistOrder ==
  (post.pc # "idle" /\ ~post.bypass)
    => /\ Before("userMessage", "generate")
       /\ Before("generate", "streamEnd")
       /\ Before("streamEnd", "assistantMessage")
       /\ Before("assistantMessage", "sources")
       /\ "generate" \in Events
            => \E i \in DOMAIN MyMessages : MyMessages[i].role = "user"
       /\ (\E i \in DOMAIN MyMessages : MyMessages[i].role = "assistant")
            => post.tokensLeft = 0 /\ "streamEnd" \in Events
       /\ \A row \in db.sources :
            \E i \in DOMAIN db.messages :
              /\ db.messages[i].id = row.messageId
              /\ db.messages[i].role = "assistant"

\* a generated answer of at least one token, persisted with its sources
C18_Witness ==
  /\ post.pc = "done" /\ ~post.bypass
  /\ "sources" \in Events
  /\ post.accumulatedResponse # <<>>
  /\ \E row \in db.sources : row.req = post.req

\* C19: a request whose client cancelled the stream after at least one token
\* and before the provider's stream ended has inserted the accumulated text
\* as its assistant row.
C19_PartialPersisted ==
  (post.pc = "done" /\ post.cancelled /\ post.accumulatedResponse # <<>>
   /\ post.tokensLeft > 0)
    => \E i \in DOMAIN MyMessages :
         /\ MyMessages[i].role = "assistant"
         /\ MyMessages[i].content = post.accumulatedResponse

\* C20: a request whose vector query returned no match ends with status 200,
\* the fixed text and an empty source list, has not called the generation
\* provider and has inserted no source row.
C20_NoMatch ==
  (post.pc \in {"Generate", "Streaming", "Sources", "done"}
   /\ "query" \in Events /\ post.relevantDocs = {})
    => /\ post.pc = "done"
       /\ post.response.status = 200
       /\ post.response.body = <<NoInformation>>
       /\ post.response.sources = {}
       /\ "generate" \notin Events
       /\ \A row \in db.sources : row.req # post.req

\* a query naming a version the non-empty store does not hold
C20_Witness ==
  /\ post.pc = "done" /\ "query" \in Events /\ post.relevantDocs = {}
  /\ post.source = "a.pdf"
  /\ \E c \in store : c.source = "a.pdf"

\* C21: a request that ended without an error has returned the id of the
\* conversation it used or created, and the list of its source chunks.
C21_ReturnsConversation ==
  (post.pc = "done" /\ post.response.status = 200)
    => /\ post.conversationId # NoConversation
       /\ post.response.conversationId = post.conversationId
       /\ post.response.sources = {c.id : c \in post.relevantDocs}

(***************************************************************************)
(* Claims on the paused registry (SpecPauseSeq).                           *)
(***************************************************************************)
\* C22: the registry never holds an entry twice, and a setStatus request
\* that pauses a source already paused, or activates a source not paused,
\* leaves the set of paused sources as it was.
C22_Idempotent ==
  /\ [](Cardinality(Range(pausedDocs)) = Len(pausedDocs))
  /\ [][\A t \in Togglers :
          (/\ st[t].pc = "Write"
           /\ st'[t].pc = "idle"
           /\ (st[t].status = "paused") <=> (st[t].source \in Range(pausedDocs)))
            => Range(pausedDocs') = Range(pausedDocs)]_vars

\* a request to pause a source that is paused is about to write the file
C22_Witness ==
  \E t \in Togglers :
    /\ st[t].pc = "Write"
    /\ st[t].status = "paused"
    /\ st[t].source \in Range(pausedDocs)

(***************************************************************************)
(* upload/route.ts getCachedEmbedding (chat/route.ts 196-204 has the same  *)
(* shape).  A vector is known by the text it embeds and by the provider    *)
(* call that computed it: the provider need not return equal vectors for   *)
(* two calls with one text.                                                *)
(***************************************************************************)
\* number of getCachedEmbedding calls one behaviour starts
MaxCalls == 4

Texts == {"chunk one", "chunk two", "chunk three"}

Vector(text, run) == [text |-> text, run |-> run]

\* embeddingCache.has(text)
\* (mutant: never a hit)
CacheHas_Never(cache, text) == FALSE
CacheHas(cache, text) == text \in DOMAIN cache

\* embeddingCache.set(text, embedding)
\* (mutant: the entry is written under another text)
CacheSet_OtherKey(cache, text, embedding) ==
  LET key == CHOOSE x \in Texts : x # text
  IN  [x \in DOMAIN cache \cup {key} |-> IF x = key THEN embedding ELSE cache[x]]
CacheSet(cache, text, embedding) ==
  [x \in DOMAIN cache \cup {text} |-> IF x = text THEN embedding ELSE cache[x]]

\* the call runs to its first await: a hit returns the stored vector, a miss
\* calls the provider
GetStart(k, text) ==
  /\ gc.call[k].pc = "idle"
  /\ gc.started < MaxCalls
  /\ gc' = IF CacheHas(gc.cache, text)
           THEN [gc EXCEPT !.started = @ + 1,
                           !.call[k] = [IdleCall EXCEPT !.pc = "returned", !.text = text,
                                                        !.hit = TRUE,
                                                        !.result = gc.cache[text]]]
           ELSE [gc EXCEPT !.started = @ + 1,
                           !.provided = @ + 1,
                           !.call[k] = [IdleCall EXCEPT !.pc = "Embedding", !.text = text,
                                                        !.computed = 1,
                                                        !.run = gc.provided + 1]]
  /\ UNCHANGED <<pd, ls, now, store, pausedDocs, nextId, up, chat, st, del, hist, post, db, embeddingCache>>

\* the provider's answer arrives: it is stored under the text and returned
GetResolve(k) ==
  /\ gc.call[k].pc = "Embedding"
  /\ LET embedding == Vector(gc.call[k].text, gc.call[k].run)
     IN  gc' = [gc EXCEPT !.cache = CacheSet(@, gc.call[k].text, embedding),
                          !.call[k] = [@ EXCEPT !.pc = "returned", !.result = embedding]]
  /\ UNCHANGED <<pd, ls, now, store, pausedDocs, nextId, up, chat, st, del, hist, post, db, embeddingCache>>

\* the caller has the vector
GetDone(k) ==
  /\ gc.call[k].pc = "returned"
  /\ gc' = [gc EXCEPT !.call[k] = IdleCall,
                      !.returned = @ \cup {gc.call[k].result}]
  /\ UNCHANGED <<pd, ls, now, store, pausedDocs, nextId, up, chat, st, del, hist, post, db, embeddingCache>>

\* SpecCache: calls that overlap, as under the Promise.all over the chunks
NextCache ==
  \/ \E k \in GetCallers, text \in Texts : GetStart(k, text)
  \/ \E k \in GetCallers : GetResolve(k)
  \/ \E k \in GetCallers : GetDone(k)

SpecCache == Init /\ [][NextCache]_vars

\* SpecCacheSeq: calls one after the other
GetStartAlone(k, text) ==
  /\ \A j \in GetCallers : gc.call[j].pc = "idle"
  /\ GetStart(k, text)

NextCacheSeq ==
  \/ \E k \in GetCallers, text \in Texts : GetStartAlone(k, text)
  \/ \E k \in GetCallers : GetResolve(k)
  \/ \E k \in GetCallers : GetDone(k)

SpecCacheSeq == Init /\ [][NextCacheSeq]_vars

C24_CacheIntegrity ==
  \A text \in DOMAIN gc.cache :
    /\ gc.cache[text].text = text
    /\ gc.cache[text].run \in 1..gc.provided

C24_Witness ==
  \E k \in GetCallers, j \in GetCallers :
    /\ gc.call[k].pc = "returned" /\ ~gc.call[k].hit
    /\ gc.call[j].pc = "Embedding"
    /\ gc.call[j].text = gc.call[k].text
    /\ gc.cache[gc.call[k].text] = gc.call[k].result
    /\ Cardinality(DOMAIN gc.cache) >= 2

\* SpecChatReject: chat requests one after the other, with and without a
\* session, with queries of every length class
TooLong == [i \in 1..(maxQueryLength + 1) |-> "x"]

RejectQueries ==
  { <<>>,
    TooLong,
    <<"f", "r", "a", "u", "d">>,
    <<"h", "i">> }

NextChatReject ==
  \/ \E user \in {Sales, Anonymous}, query \in RejectQueries,
        conversationId \in {NoConversation} \cup {c.id : c \in db.conversations} :
       PostStart(user, query, conversationId, "", <<>>, "default")
  \/ PostSafeConversation
  \/ PostSafeUser
  \/ PostSafeAssistant
  \/ PostHistory
  \/ PostConversation
  \/ PostUser
  \/ PostEmbed
  \/ ChatGetPausedDocs
  \/ ChatQuery
  \/ PostRetrieved
  \/ PostGenerate
  \/ PostToken
  \/ PostFlush
  \/ PostSources
  \/ PostCancel
  \/ PostDone

SpecChatReject == InitChat /\ [][NextChatReject]_vars

\* C25: a chat request without an authenticated principal, or whose query is
\* empty or longer than 2000 characters, ends at once with 401 or 400: it
\* makes no embedding, vector-store or generation call, and no step of it
\* changes the tables, the embedding cache or the vector store.
Rejected(r) ==
  /\ r.pc # "idle"
  /\ \/ r.user.id = ""
     \/ Len(r.query) = 0
     \/ Len(r.query) > 2000

C25_RejectedEarly ==
  /\ [](Rejected(post) =>
          /\ post.pc = "done"
          /\ post.response.status \in {400, 401}
          /\ post.events = <<>>
          /\ MyMessages = <<>>
          /\ chat = IdleChat)
  /\ [][(Rejected(post) \/ Rejected(post'))
          => UNCHANGED <<db, embeddingCache, store, chat>>]_vars

C25_Witness ==
  /\ post.pc = "done"
  /\ Len(post.query) > 2000
  /\ post.response.status = 400
  /\ db.conversations # {}

\* C26: when an admin deletion of a source ends, no chunk of a shared upload
\* of that source (public or tagged with roles) is left in the store if the
\* request named no version, and none of the named version if it named one.
SharedChunk(c) == c.is_public \/ c.roles # {}

C26_DeleteRemovesShared ==
  [][(del.pc # "idle" /\ del'.pc = "idle")
       => \A c \in store' :
            (SharedChunk(c) /\ c.source = del.source)
              => (del.version # 0 /\ c.version # del.version)]_vars

(***************************************************************************)
(* part_005 GET: the admin listing of the documents and their versions.    *)
(***************************************************************************)
\* number of listing requests of one behaviour
MaxLists == 2

\* filter: { is_public: true }
ListFilter == Eq("is_public", TRUE)

\* match.metadata?.version as number || 1
VersionOrOne(c) == IF c.version = NoVersion \/ c.version = 0 THEN 1 ELSE c.version

\* .sort((a, b) => b.version - a.version)
RECURSIVE SortDesc(_)
SortDesc(V) ==
  IF V = {} THEN <<>>
  ELSE LET m == CHOOSE x \in V : \A y \in V : y.version <= x.version
       IN  <<m>> \o SortDesc(V \ {m})

\* the matches that come first for their source and version, in whatever
\* order the index returns the matches
Firsts(M) ==
  {F \in SUBSET M :
     /\ \A c \in M : \E f \in F : f.source = c.source /\ VersionOrOne(f) = VersionOrOne(c)
     /\ \A f \in F, g \in F :
          (f.source = g.source /\ VersionOrOne(f) = VersionOrOne(g)) => f = g}

\* documentsMap as the array of the response
DocumentList(M, F, paused) ==
  { [source |-> s,
     versions |-> SortDesc(
       { [version |-> VersionOrOne(f),
          status |-> IF s \in Range(paused) THEN "paused" ELSE "active",
          is_latest |-> f.is_latest,
          chunkCount |-> Cardinality({c \in M : c.source = s /\
                                                VersionOrOne(c) = VersionOrOne(f)})]
         : f \in {g \in F : g.source = s} })]
    : s \in {c.source : c \in M} \ {""} }

\* session check
ListStart(user) ==
  /\ ls.pc = "idle"
  /\ ls.req < MaxLists
  /\ ls' = IF user.role # "admin"
           THEN [IdleList EXCEPT !.req = ls.req + 1, !.user = user,
                                 !.pc = "done", !.status = 401]
           ELSE [IdleList EXCEPT !.req = ls.req + 1, !.user = user,
                                 !.pc = "GetPausedDocs"]
  /\ UNCHANGED <<pd, now, gc, store, pausedDocs, nextId, up, chat, st, del, hist, post, db,
                 embeddingCache>>

\* const pausedDocs = await getPausedDocs()
ListGetPausedDocs ==
  /\ ls.pc = "GetPausedDocs"
  /\ ls' = [ls EXCEPT !.pc = "Query", !.pausedDocs = pausedDocs]
  /\ UNCHANGED <<pd, now, gc, store, pausedDocs, nextId, up, chat, st, del, hist, post, db,
                 embeddingCache>>

\* await pineconeIndex.query(...), the grouping and the response
ListQuery ==
  /\ ls.pc = "Query"
  /\ \E M \in Query(ListFilter, AllTopK, store) : \E F \in Firsts(M) :
       ls' = [ls EXCEPT !.pc = "done", !.status = 200,
                        !.body = DocumentList(M, F, ls.pausedDocs)]
  /\ UNCHANGED <<pd, now, gc, store, pausedDocs, nextId, up, chat, st, del, hist, post, db,
                 embeddingCache>>

ListDone ==
  /\ ls.pc = "done"
  /\ ls' = [IdleList EXCEPT !.req = ls.req]
  /\ UNCHANGED <<pd, now, gc, store, pausedDocs, nextId, up, chat, st, del, hist, post, db,
                 embeddingCache>>

\* SpecList: listings over every small store the upload handler's tagging
\* can produce and every small registry
InitList == InitFilter

NextList ==
  \/ \E user \in Principals : ListStart(user)
  \/ ListGetPausedDocs
  \/ ListQuery
  \/ ListDone

SpecList == InitList /\ [][NextList]_vars

\* C27: a listing that succeeded shows every shared source of the store
\* (public or tagged with roles) with every version it has, in strictly
\* descending order, each with the number of its chunks, the is_latest flag
\* of its chunks and the status paused exactly for a paused source.
C27_ListsShared ==
  (ls.pc = "done" /\ ls.status = 200) =>
    /\ \A c \in store :
         SharedChunk(c) =>
           \E d \in ls.body :
             /\ d.source = c.source
             /\ \E i \in DOMAIN d.versions :
                  /\ d.versions[i].version = c.version
                  /\ d.versions[i].is_latest = c.is_latest
                  /\ d.versions[i].chunkCount =
                       Cardinality({x \in store : /\ SharedChunk(x)
                                                  /\ x.source = c.source
                                                  /\ x.version = c.version})
                  /\ (d.versions[i].status = "paused") <=> (c.source \in Range(pausedDocs))
    /\ \A d \in ls.body : \A i \in DOMAIN d.versions, j \in DOMAIN d.versions :
         i < j => d.versions[i].version > d.versions[j].version

(***************************************************************************)
(* chat/route.ts: a call of the pipeline throws inside the try block and   *)
(* the catch at the end of the handler answers.                            *)
(***************************************************************************)
InternalServerError == "Internal Server Error"

\* catch (error): the 500 response
\* (mutant: the failure is answered as an empty retrieval)
OnFailure_EmptyAnswer(r, call) ==
  [r EXCEPT !.pc = "done", !.failed = call,
            !.response = [status |-> 200, body |-> <<NoInformation>>, sources |-> {},
                          conversationId |-> NoConversation]]
OnFailure(r, call) ==
  [r EXCEPT !.pc = "done", !.failed = call,
            !.response = [status |-> 500, body |-> <<InternalServerError>>, sources |-> {},
                          conversationId |-> NoConversation]]

\* await embeddings.embedQuery(query) throws
PostEmbedFailed ==
  /\ post.pc = "Embed"
  /\ post.query \notin embeddingCache
  /\ post' = OnFailure(Log(post, "embedQuery"), "embedQuery")
  /\ UNCHANGED <<pd, ls, now, gc, store, pausedDocs, nextId, up, chat, st, del, hist, db,
                 embeddingCache>>

\* await pineconeIndex.query(...) throws
PostQueryFailed ==
  /\ post.pc = "Retrieving"
  /\ chat.pc = "Query"
  /\ chat' = IdleChat
  /\ post' = OnFailure(Log(post, "query"), "query")
  /\ UNCHANGED <<pd, ls, now, gc, store, pausedDocs, nextId, up, st, del, hist, db,
                 embeddingCache>>

\* await chain.stream(...) throws
PostGenerateFailed ==
  /\ post.pc = "Generate"
  /\ post' = OnFailure(Log(post, "generate"), "generate")
  /\ UNCHANGED <<pd, ls, now, gc, store, pausedDocs, nextId, up, chat, st, del, hist, db,
                 embeddingCache>>

\* SpecChatFail: chat requests one after the other, each of whose external
\* calls may throw
ChatFailQueries ==
  { <<"f", "r", "a", "u", "d">>,
    <<"f", "r", "a", "u", " ", "d">>,
    <<"h", "i">> }

NextChatFail ==
  \/ \E query \in ChatFailQueries,
        conversationId \in {NoConversation} \cup {c.id : c \in db.conversations} :
       PostStart(Sales, query, conversationId, "", <<>>, "default")
  \/ PostSafeConversation
  \/ PostSafeUser
  \/ PostSafeAssistant
  \/ PostHistory
  \/ PostConversation
  \/ PostUser
  \/ PostEmbed
  \/ PostEmbedFailed
  \/ ChatGetPausedDocs
  \/ ChatQuery
  \/ PostQueryFailed
  \/ PostRetrieved
  \/ PostGenerate
  \/ PostGenerateFailed
  \/ PostToken
  \/ PostFlush
  \/ PostSources
  \/ PostCancel
  \/ PostDone

SpecChatFail == InitChat /\ [][NextChatFail]_vars

\* C28: a request that did not take the bypass and whose embedding call,
\* vector-store query or start of generation failed is over with status 500:
\* its answer is not the successful empty answer, no assistant message of it
\* is in the table, and nothing is written for it afterwards.
C28_TerminalFailure ==
  /\ [](post.failed # "" =>
          /\ ~post.bypass
          /\ post.pc = "done"
          /\ post.response.status = 500
          /\ post.response.body # <<NoInformation>>
          /\ \A i \in DOMAIN MyMessages : MyMessages[i].role # "assistant"
          /\ "assistantMessage" \notin Events)
  /\ [][post.failed # "" => db' = db]_vars

C28_Witness ==
  /\ post.failed = "generate"
  /\ post.relevantDocs # {}
  /\ \E i \in DOMAIN MyMessages : MyMessages[i].role = "user"
  /\ \E i \in DOMAIN db.messages : db.messages[i].role = "assistant"

(***************************************************************************)
(* The clock that new Date() reads, in the whole seconds the column        *)
(* created_at keeps.                                                       *)
(***************************************************************************)
\* seconds that pass in one behaviour
MaxClock == 2

\* a second passes
Tick ==
  /\ now < MaxClock
  /\ now' = now + 1
  /\ UNCHANGED <<pd, ls, gc, store, pausedDocs, nextId, up, chat, st, del, hist, post, db,
                 embeddingCache>>

\* SpecClock: chat requests one after the other while time passes
NextClock ==
  \/ Tick
  \/ \E query \in ChatFailQueries,
        conversationId \in {NoConversation} \cup {c.id : c \in db.conversations} :
       PostStart(Sales, query, conversationId, "", <<>>, "default")
  \/ PostSafeConversation
  \/ PostSafeUser
  \/ PostSafeAssistant
  \/ PostHistory
  \/ PostConversation
  \/ PostUser
  \/ PostEmbed
  \/ ChatGetPausedDocs
  \/ ChatQuery
  \/ PostRetrieved
  \/ PostGenerate
  \/ PostToken
  \/ PostFlush
  \/ PostSources
  \/ PostCancel
  \/ PostDone

SpecClock == InitChat /\ [][NextClock]_vars

\* C29: of two messages of one conversation, the one inserted later has the
\* greater createdAt.
C29_CreatedAtIncreasing ==
  \A i \in DOMAIN db.messages, j \in DOMAIN db.messages :
    (i < j /\ db.messages[i].conversationId = db.messages[j].conversationId)
      => db.messages[i].createdAt < db.messages[j].createdAt

(***************************************************************************)
(* SpecRegistry: setStatus requests of every kind of principal and body,   *)
(* overlapping each other and one first ingestion, admin deletions and one *)
(* chat request, which start one at a time.                                *)
(***************************************************************************)
Quiet == Steady /\ post.pc = "idle" /\ chat.pc = "idle"

\* the bodies of the setStatus requests: source and status
StatusBodies ==
  {<<"a.pdf", "paused">>, <<"a.pdf", "active">>, <<"", "paused">>, <<"a.pdf", "deleted">>}

NextRegistry ==
  \/ \E t \in Togglers, user \in {Admin, Sales, Anonymous}, body \in StatusBodies :
       StatusPost(t, user, body[1], body[2])
  \/ \E t \in Togglers : StatusRead(t)
  \/ \E t \in Togglers : StatusWrite(t)
  \/ \E t \in Togglers : StatusDone(t)
  \/ \E file \in ValidFiles :
       Quiet /\ hist.uploads < 1 /\ UploadStart(1, Admin, file, "a.pdf", "public", <<>>)
  \/ UploadLatestQuery(1)
  \/ UploadEmbed(1, TRUE)
  \/ UploadUpsert(1, TRUE)
  \/ UploadDone(1)
  \/ \E version \in DeleteVersions : Quiet /\ DeleteStart("a.pdf", version)
  \/ DeleteQuery
  \/ DeleteMany
  \/ \E query \in ChatFailQueries :
       Quiet /\ post.req < 1 /\ PostStart(Sales, query, NoConversation, "", <<>>, "default")
  \/ PostSafeConversation
  \/ PostSafeUser
  \/ PostSafeAssistant
  \/ PostConversation
  \/ PostUser
  \/ PostEmbed
  \/ ChatGetPausedDocs
  \/ ChatQuery
  \/ PostRetrieved
  \/ PostGenerate
  \/ PostToken
  \/ PostFlush
  \/ PostSources
  \/ PostDone

SpecRegistry == InitSeq /\ [][NextRegistry]_vars

\* C30: a setStatus request comes to read and to write the registry only
\* with the admin role, a source and a status of active or paused, any other
\* is answered 401 or 400; and a step that changes the registry is the write
\* of such a request, never a step of an ingestion, a deletion or a chat
\* request.
C30_OnlyAdminSetStatus ==
  /\ [](\A t \in Togglers :
          /\ st[t].pc \in {"Read", "Write"} =>
               /\ st[t].user.role = "admin"
               /\ st[t].source # ""
               /\ st[t].status \in {"active", "paused"}
          /\ st[t].pc = "Rejected" => st[t].response \in {400, 401})
  /\ [][pausedDocs' # pausedDocs =>
          /\ \E t \in Togglers : st[t].pc = "Write" /\ st'[t].pc = "idle"
          /\ UNCHANGED <<up, del, post, chat, store, db>>]_vars

C30_Witness ==
  /\ pausedDocs # <<>>
  /\ \E t \in Togglers :
       st[t].pc = "Rejected" /\ st[t].user = Sales /\ st[t].status = "active"
  /\ store # {}
  /\ db.messages # <<>>
  /\ hist.deletes > 0

(***************************************************************************)
(* SpecStages: chat requests one after the other, with and without a       *)
(* session, with queries of every kind, each of whose external calls may   *)
(* throw.                                                                  *)
(***************************************************************************)
NextStages ==
  \/ \E user \in {Sales, Anonymous}, query \in RejectQueries,
        conversationId \in {NoConversation} \cup {c.id : c \in db.conversations} :
       PostStart(user, query, conversationId, "", <<>>, "default")
  \/ PostSafeConversation
  \/ PostSafeUser
  \/ PostSafeAssistant
  \/ PostHistory
  \/ PostConversation
  \/ PostUser
  \/ PostEmbed
  \/ PostEmbedFailed
  \/ ChatGetPausedDocs
  \/ ChatQuery
  \/ PostQueryFailed
  \/ PostRetrieved
  \/ PostGenerate
  \/ PostGenerateFailed
  \/ PostToken
  \/ PostFlush
  \/ PostSources
  \/ PostCancel
  \/ PostDone

SpecStages == InitChat /\ [][NextStages]_vars

\* the stage a request is in: 0 before it starts, 2 the bypass of the policy
\* check, 3 HistoryLoad, 4 Embed, 5 Retrieve, 6 Generate, 7 PersistAndClose,
\* 8 over (validation and the policy check are one step from 0)
StageOf(r) ==
  CASE r.pc = "idle" -> 0
    [] r.pc \in {"SafeConversation", "SafeUser", "SafeAssistant"} -> 2
    [] r.pc \in {"History", "Conversation", "User"} -> 3
    [] r.pc = "Embed" -> 4
    [] r.pc = "Retrieving" -> 5
    [] r.pc = "Generate" -> 6
    [] r.pc \in {"Streaming", "Sources"} -> 7
    [] r.pc = "done" -> 8

\* C31: a step of a chat request stays in its stage, goes on to the next
\* stage, or ends the request; a request ends before PersistAndClose only
\* rejected (400, 401), by the bypass, by the empty retrieval out of
\* Retrieve, or failed (500) out of Embed, Retrieve or Generate; and what a
\* request has done, it has done in the order of the stages.
C31_StageOrder ==
  /\ [][LET a == StageOf(post)
            b == StageOf(post')
        IN  \/ a = b
            \/ a = 0 /\ b = 3
            \/ a = 0 /\ b = 2 /\ post'.bypass
            \/ a = 0 /\ b = 8 /\ post'.response.status \in {400, 401}
            \/ a = 2 /\ b = 8 /\ post'.bypass /\ post'.response.status = 200
            \/ a \in 3..6 /\ b = a + 1
            \/ a = 5 /\ b = 8 /\ post'.response.status = 200
                 /\ post'.response.body = <<NoInformation>> /\ post'.relevantDocs = {}
            \/ a \in 4..6 /\ b = 8 /\ post'.response.status = 500
            \/ a = 7 /\ b = 8
            \/ a = 8 /\ b = 0]_vars
  /\ [](/\ Before("userMessage", "embedQuery")
        /\ Before("userMessage", "query")
        /\ Before("query", "generate")
        /\ Before("generate", "streamEnd")
        /\ Before("userMessage", "assistantMessage")
        /\ ~post.bypass => Before("generate", "assistantMessage")
        /\ Before("assistantMessage", "sources"))

C31_Witness ==
  /\ post.pc = "done"
  /\ post.events = <<"userMessage", "embedQuery", "query", "generate", "streamEnd",
                     "assistantMessage", "sources">>
  /\ \E i \in DOMAIN db.messages : db.messages[i].req # post.req

\* C32: while a generated answer is streamed, what was forwarded to the
\* caller is what the provider yielded so far, in its order, and it is what
\* was accumulated; when the stream ended with at least one token, the
\* content of the request's assistant message is exactly what was forwarded.
C32_PersistedEqualsForwarded ==
  (post.pc \in {"Streaming", "Sources", "done"} /\ "generate" \in Events) =>
    /\ \A i \in DOMAIN post.response.body :
         post.response.body[i] = Token(post.tokensLeft + Len(post.response.body) - i + 1)
    /\ post.accumulatedResponse = post.response.body
    /\ ("streamEnd" \in Events /\ post.response.body # <<>>) =>
         \E i \in DOMAIN MyMessages :
           /\ MyMessages[i].role = "assistant"
           /\ MyMessages[i].content = post.response.body
           /\ \A j \in DOMAIN MyMessages : MyMessages[j].role = "assistant" => j = i

C32_Witness ==
  /\ post.pc = "done"
  /\ "streamEnd" \in Events
  /\ Len(post.response.body) >= 2
  /\ \E i \in DOMAIN MyMessages :
       MyMessages[i].role = "assistant" /\ Len(MyMessages[i].content) >= 2

\* C33: a chat request works on a conversation of its own principal only:
\* the history it loaded and the messages it inserted belong to no
\* conversation of another principal.
OwnerOf(conversationId) ==
  {c.userId : c \in {x \in db.conversations : x.id = conversationId}}

C33_OwnConversationOnly ==
  post.pc # "idle" =>
    /\ \A i \in DOMAIN post.chatHistory :
         OwnerOf(post.chatHistory[i].conversationId) \subseteq {post.user.id}
    /\ \A i \in DOMAIN MyMessages :
         OwnerOf(MyMessages[i].conversationId) \subseteq {post.user.id}

\* C34: a request that is over with status 200, was not cancelled and
\* inserted a user message has inserted exactly one assistant message, after
\* the user message and in the same conversation.
C34_UserMessageAnswered ==
  (/\ post.pc = "done"
   /\ post.response.status = 200
   /\ ~post.cancelled
   /\ \E i \in DOMAIN MyMessages : MyMessages[i].role = "user")
    => /\ Len(MyMessages) = 2
       /\ MyMessages[1].role = "user"
       /\ MyMessages[2].role = "assistant"
       /\ MyMessages[2].conversationId = MyMessages[1].conversationId

\* C35: when no ingestion and no deletion is in progress, every source with
\* a public chunk in the store has exactly one version whose shared chunks
\* are marked latest.
C35_OneLatestAfterDelete ==
  Steady =>
    \A source \in Sources :
      (\E c \in store : c.source = source /\ c.is_public)
        => Cardinality(LatestVersions(source)) = 1

\* C36: when no setStatus request is in progress, the registry holds exactly
\* the sources whose last completed request paused them.
C36_NoLostUpdate ==
  (\A t \in Togglers : st[t].pc = "idle") => Range(pausedDocs) = hist.paused

\* C37: a shared ingestion that found a latest version and ended with a
\* failure response has cleared no flag: the chunks of the version it found
\* are still marked latest.
C37_FailureKeepsLatest ==
  (/\ up[1].pc = "done"
   /\ up[1].response >= 400
   /\ up[1].probed
   /\ up[1].hadLatest)
    => /\ up[1].cleared = {}
       /\ \A c \in store :
            (c.source = up[1].source /\ c.version = up[1].version - 1 /\ c.user_id = NoUser)
              => c.is_latest

(***************************************************************************)
(* documents/private/route.ts POST: a user deletes a private document.     *)
(***************************************************************************)
\* number of private deletions of one behaviour
MaxPrivateDeletes == 2

\* filter: { $and: [{ source }, { user_id: session.user.id }] }
\* (mutant: the filter without the user)
PrivateDeleteFilter_AnyUser(source, userId) == And(<< Eq("source", source) >>)
PrivateDeleteFilter(source, userId) ==
  And(<< Eq("source", source), Eq("user_id", userId) >>)

\* the session check and the check of the body
PrivateDeleteStart(user, source) ==
  /\ pd.pc = "idle"
  /\ pd.req < MaxPrivateDeletes
  /\ LET r == [IdlePrivateDelete EXCEPT !.req = pd.req + 1, !.user = user,
                                        !.source = source]
     IN  pd' = IF ~Authenticated(user)
               THEN [r EXCEPT !.pc = "done", !.response = 401]
               ELSE IF source = ""
               THEN [r EXCEPT !.pc = "done", !.response = 400]
               ELSE [r EXCEPT !.pc = "Query"]
  /\ UNCHANGED <<ls, now, gc, store, pausedDocs, nextId, up, chat, st, del, hist, post, db,
                 embeddingCache>>

\* const queryResult = await pineconeIndex.query({topK: 10000, ...})
PrivateDeleteQuery ==
  /\ pd.pc = "Query"
  /\ \E M \in Query(PrivateDeleteFilter(pd.source, pd.user.id), AllTopK, store) :
       pd' = IF M = {}
             THEN [pd EXCEPT !.pc = "done", !.response = 404]
             ELSE [pd EXCEPT !.pc = "Delete", !.ids = {c.id : c \in M}]
  /\ UNCHANGED <<ls, now, gc, store, pausedDocs, nextId, up, chat, st, del, hist, post, db,
                 embeddingCache>>

\* await pineconeIndex.deleteMany(idsToDelete)
PrivateDeleteMany ==
  /\ pd.pc = "Delete"
  /\ store' = {c \in store : c.id \notin pd.ids}
  /\ pd' = [pd EXCEPT !.pc = "done", !.response = 200]
  /\ UNCHANGED <<ls, now, gc, pausedDocs, nextId, up, chat, st, del, hist, post, db,
                 embeddingCache>>

\* the response is sent
PrivateDeleteDone ==
  /\ pd.pc = "done"
  /\ pd' = [IdlePrivateDelete EXCEPT !.req = pd.req]
  /\ UNCHANGED <<ls, now, gc, store, pausedDocs, nextId, up, chat, st, del, hist, post, db,
                 embeddingCache>>

\* SpecPrivate: private deletions one after the other over every small store
\* the upload handler's tagging can produce
NextPrivate ==
  \/ \E user \in Principals \cup {Anonymous}, source \in Sources \cup {""} :
       PrivateDeleteStart(user, source)
  \/ PrivateDeleteQuery
  \/ PrivateDeleteMany
  \/ PrivateDeleteDone

SpecPrivate == InitFilter /\ [][NextPrivate]_vars

\* C38: the step that ends a private deletion with 200 removes exactly the
\* chunks of the source whose user_id is the principal's id, and there was
\* one; a deletion that ends with 404 found no such chunk; every chunk that
\* is private to another user or shared is in the store after any step.
Owned(S, source, userId) == {c \in S : c.source = source /\ c.user_id = userId}

C38_PrivateDeleteExact ==
  [][/\ (pd.pc = "Delete" /\ pd'.pc = "done")
          => /\ pd'.response = 200
             /\ Owned(store, pd.source, pd.user.id) # {}
             /\ store' = store \ Owned(store, pd.source, pd.user.id)
     /\ (pd.pc = "Query" /\ pd'.pc = "done")
          => /\ pd'.response = 404
             /\ Owned(store, pd.source, pd.user.id) = {}
     /\ ~(pd.pc = "Delete" /\ pd'.pc = "done") => store' = store
     /\ \A c \in store : c \notin Owned(store, pd.source, pd.user.id) => c \in store']_vars

C38_Witness ==
  /\ pd.pc = "done"
  /\ pd.response = 200
  /\ pd.user = Sales
  /\ \E c \in store : c.source = pd.source /\ c.user_id = Admin.id
  /\ \E c \in store : c.source = pd.source /\ c.is_public

(***************************************************************************)
(* SpecSources: chat requests one after the other over a store with more   *)
(* matching chunks than one retrieval returns.                             *)
(***************************************************************************)
ManyChunks == {NewChunk(i, Admin, "a.pdf", "public", <<>>, 1) : i \in 1..(ChatTopK + 1)}

InitSources ==
  /\ store = ManyChunks
  /\ pausedDocs = <<>>
  /\ nextId = ChatTopK + 2
  /\ up = [u \in Uploaders |-> IdleUp]
  /\ chat = IdleChat
  /\ st = [t \in Togglers |-> IdleSt]
  /\ del = IdleDel
  /\ hist = InitHist
  /\ post = IdlePost
  /\ db = EmptyDb
  /\ embeddingCache = {}
  /\ gc = IdleGc
  /\ ls = IdleList
  /\ now = 0
  /\ pd = IdlePrivateDelete

NextSources ==
  \/ \E query \in {<<"h", "i">>, <<"f", "r", "a", "u", "d">>},
        conversationId \in {NoConversation} \cup {c.id : c \in db.conversations} :
       PostStart(Sales, query, conversationId, "", <<>>, "default")
  \/ PostSafeConversation
  \/ PostSafeUser
  \/ PostSafeAssistant
  \/ PostHistory
  \/ PostConversation
  \/ PostUser
  \/ PostEmbed
  \/ ChatGetPausedDocs
  \/ ChatQuery
  \/ PostRetrieved
  \/ PostGenerate
  \/ PostToken
  \/ PostFlush
  \/ PostSources
  \/ PostCancel
  \/ PostDone

SpecSources == InitSources /\ [][NextSources]_vars

\* C39: every source row names an assistant message that is in the table and
\* was inserted by the same request; a request has no source row before its
\* assistant message is in the table; and the source rows of a request that
\* wrote them are one per chunk its retrieval returned, between 1 and 5, the
\* chunks of the source list sent to the caller.
MySources == {x \in db.sources : x.req = post.req}

C39_SourcesMatchRetrieval ==
  /\ \A x \in db.sources :
       \E i \in DOMAIN db.messages :
         /\ db.messages[i].id = x.messageId
         /\ db.messages[i].role = "assistant"
         /\ db.messages[i].req = x.req
  /\ post.pc # "idle" =>
       /\ (\A i \in DOMAIN MyMessages : MyMessages[i].role # "assistant") => MySources = {}
       /\ MySources # {} =>
            /\ {x.doc : x \in MySources} = {c.id : c \in post.relevantDocs}
            /\ {x.doc : x \in MySources} = post.response.sources
            /\ Cardinality(MySources) = Cardinality(post.relevantDocs)
            /\ Cardinality(MySources) \in 1..5
            /\ \A x \in MySources : x.messageId = post.assistantMessageId

C39_Witness ==
  /\ post.pc = "done"
  /\ Cardinality(MySources) = 5
  /\ Cardinality(store) > 5
  /\ \E x \in db.sources : x.req # post.req

\* C40: a retrieval whose request supplied only one of source and version
\* returned what the default mode returns for its principal, chunks of other
\* sources and versions included; a retrieval whose request supplied both
\* returned chunks of that source only.
DefaultVisible(c, user, paused) ==
  /\ c.source \notin Range(paused)
  /\ \/ c.user_id = user.id
     \/ c.is_public /\ c.is_latest
     \/ user.role # NoRole /\ user.role \in c.roles /\ c.is_latest

C40_ExplicitNeedsBoth ==
  chat.pc = "Retrieved" =>
    LET D == {c \in store : DefaultVisible(c, chat.user, chat.pausedDocs)}
    IN  /\ ((chat.source = "") # (chat.version = <<>>)) =>
              /\ chat.result \subseteq D
              /\ Cardinality(D) <= ChatTopK => chat.result = D
        /\ (chat.source # "" /\ chat.version # <<>>) =>
              \A c \in chat.result : c.source = chat.source

C40_Witness ==
  /\ chat.pc = "Retrieved"
  /\ chat.source # ""
  /\ chat.version = <<>>
  /\ \E c \in chat.result : c.source # chat.source
  /\ \E c \in chat.result : c.source = chat.source /\ ~c.is_public

====
